---- MODULE Spec2Model ----
(***************************************************************************)
(* libvbs: a recording scattered over several mountpoints, presented as    *)
(* one contiguous read-only file (vbs_open / mk6_open / vbs_read /         *)
(* vbs_lseek / vbs_close of src/evlbi5a/libvbs.cc).                        *)
(*                                                                         *)
(* Conventions of the model                                                *)
(*   - a std::set<filechunk_type> is a sequence sorted by chunkNumber; an  *)
(*     iterator into it is an index, Len+1 being end();                    *)
(*   - a std::set<string> of mountpoints is a set of mountpoint numbers,   *)
(*     iterated in increasing order;                                       *)
(*   - a byte of a physical file is the pair <<file, offset>>, so that two *)
(*     different bytes of the disks are never equal;                       *)
(*   - the operating system hands out the lowest unused file descriptor.   *)
(***************************************************************************)
EXTENDS Integers, Sequences, FiniteSets, Bags, TLC

VARIABLES
    openedFiles,  \* the handle table: handle -> openfile_type
    osOpen,       \* the process's open OS file descriptors: fd -> file
    pend,         \* per thread: the open call between its scan and its insert
    ret,          \* the last call that returned: what it was and what it returned
    live,         \* bag of handles returned by open and not yet closed by the caller
    everClosed,   \* handles for which some close returned 0
    dead,         \* handles closed with success and not returned by open since
    sinceRet,     \* per handle ever returned: what happened since open last returned it
    lastOpen,     \* {h}: open returned h and no close has succeeded since; else {}
    was,          \* what held of the handle of ret just before that call returned
    stream,       \* per handle: bytes delivered by reads since open; Void after a seek or a failed OS call
    rt,           \* per handle: <<"seek", p>> after seek(p, SET), <<"read", p, n>> after the read that followed it
    phase,        \* per handle: progress through seek-past-end / rewind / read
    origin        \* per handle: the recording and mountpoints it was opened on

vars == <<openedFiles, osOpen, pend, ret, live, everClosed, dead, sinceRet,
          lastOpen, was, stream, rt, phase, origin>>

tableGhosts == <<live, everClosed, dead, sinceRet, lastOpen, was>>
ioGhosts    == <<stream, rt, phase, origin>>

----------------------------------------------------------------------------
(* Program constants *)

IntMax == 2147483647
invalidFileDescriptor == 2147483647
fh_size == 20
wb_size == 8
SEEK_SET == 0
SEEK_CUR == 1
SEEK_END == 2

EBADF  == "EBADF"
EINVAL == "EINVAL"
EFAULT == "EFAULT"
ENOENT == "ENOENT"
NoErr  == "none"

(* Bounds of the model *)
MaxOpen  == 2    \* virtual files open at the same time
MaxCount == 4    \* largest byte count passed to read
PastEnd  == 1    \* how far past the end of the file a seek may aim
FdLimit  == 8    \* descriptors a process may have open (RLIMIT_NOFILE)
MaxLeaked == 1   \* descriptors left open by earlier calls when open is called

Threads  == {1, 2}    \* threads calling into the library
NullPtr  == "NULL"
NullDirs == [null |-> TRUE, dirs |-> <<>>]    \* a null char const* const*
Dirs(ds) == [null |-> FALSE, dirs |-> ds]     \* a null-terminated array of mountpoints
Void     == [ok |-> FALSE, bytes |-> <<>>]     \* a stream that a seek has interrupted
Bytes(b) == [ok |-> TRUE, bytes |-> b]
Idle     == [op |-> "idle"]

----------------------------------------------------------------------------
(* Sequence helpers *)

SeqMin(S) == CHOOSE x \in S : \A y \in S : x <= y

RECURSIVE SetToSortedSeq(_)
SetToSortedSeq(S) ==
    IF S = {} THEN <<>>
    ELSE LET m == SeqMin(S) IN <<m>> \o SetToSortedSeq(S \ {m})

RECURSIVE SumSizes(_)
SumSizes(cs) == IF cs = <<>> THEN 0 ELSE Head(cs).chunkSize + SumSizes(Tail(cs))

----------------------------------------------------------------------------
(* The disks.  ScatteredDisk: recording -> mountpoint -> directory listing  *)
(* (NoDir when the mountpoint has no directory of that name); an entry is   *)
(* the 8-digit suffix of the file name and the size of the file.            *)
(* Mk6Disk: recording -> mountpoint -> file (NoFile when absent); a file is *)
(* its header fields and its write-block headers.                           *)

NoDir  == [exists |-> FALSE, entries |-> {}]
Dir(entries) == [exists |-> TRUE, entries |-> entries]
NoFile == [exists |-> FALSE]
MARK6_SG_SYNC_WORD == "feed6666"

Digits8(n) == <<0, 0, 0, 0, 0, 0, (n \div 10) % 10, n % 10>>

ScatteredDisk ==
    [ recA |-> [ m \in {1, 2} |->
                   IF m = 1 THEN Dir({ [digits |-> Digits8(0),  size |-> 2],
                                       [digits |-> Digits8(12), size |-> 1] })
                            ELSE Dir({ [digits |-> Digits8(5),  size |-> 0] }) ],
      recF |-> [ m \in {1, 2} |->
                   IF m = 1 THEN Dir({ [digits |-> Digits8(0), size |-> 1] })
                            ELSE NoDir ],
      recC |-> [ m \in {1, 2} |-> Dir({ [digits |-> Digits8(0), size |-> 1] }) ],
      recB |-> [ m \in {1, 2} |->
                   IF m = 1 THEN Dir({ [digits |-> Digits8(0), size |-> 1] })
                            ELSE Dir({ [digits |-> Digits8(1), size |-> 2] }) ],
      recN |-> [ m \in {1, 2} |-> NoDir ] ]

RECURSIVE BlocksLen(_)
BlocksLen(bs) == IF bs = <<>> THEN 0 ELSE Head(bs).wb_size + BlocksLen(Tail(bs))

\* a file in a Mark6 directory: what its first bytes hold where a file header
\* would be, the write-block headers that a walk from header to header
\* comes by, and its length in bytes
Mk6FileOfSize(sync_word, version, blocks, size) ==
    [exists |-> TRUE, sync_word |-> sync_word, version |-> version, blocks |-> blocks,
     size |-> size]

\* the bytes that the blocks take: each as many as its header says, the
\* last one at least those of its header
WrittenLen(blocks) ==
    IF blocks = <<>> THEN 0
    ELSE BlocksLen(SubSeq(blocks, 1, Len(blocks) - 1))
         + (IF blocks[Len(blocks)].wb_size < wb_size THEN wb_size
            ELSE blocks[Len(blocks)].wb_size)

\* a Mark6 file of the given version that ends with its last block, and a
\* write-block header
Mk6File(version, blocks) ==
    Mk6FileOfSize(MARK6_SG_SYNC_WORD, version, blocks, fh_size + WrittenLen(blocks))
WbHeader(blocknum, size) == [blocknum |-> blocknum, wb_size |-> size]

Mk6Disk ==
    [ recD |-> [ m \in {1, 2} |->
                   IF m = 1
                   THEN Mk6File(2, << WbHeader(0, wb_size + 2), WbHeader(2, wb_size + 1) >>)
                   ELSE Mk6File(2, << WbHeader(1, wb_size + 1) >>) ],
      recE |-> [ m \in {1, 2} |->
                   IF m = 2
                   THEN Mk6File(2, << WbHeader(7, wb_size + 1) >>)
                   ELSE NoFile ],
      recG |-> [ m \in {1, 2} |->
                   IF m = 1 THEN Mk6File(2, << WbHeader(0, wb_size + 1), WbHeader(1, wb_size + 1) >>)
                            ELSE Mk6File(2, << WbHeader(1, wb_size + 2), WbHeader(3, wb_size + 1) >>) ],
      recH |-> [ m \in {1, 2} |->
                   IF m = 1 THEN Mk6File(2, << WbHeader(0, wb_size + 1) >>)
                            ELSE Mk6File(2, << WbHeader(0, wb_size + 2) >>) ],
      recK |-> [ m \in {1, 2} |->
                   IF m = 1 THEN Mk6File(2, << WbHeader(0, wb_size + 1), WbHeader(-1, wb_size + 1) >>)
                            ELSE Mk6File(2, << WbHeader(1, wb_size + 1) >>) ],
      recL |-> [ m \in {1, 2} |->
                   IF m = 1 THEN Mk6File(2, << WbHeader(0, wb_size + 1), WbHeader(0, wb_size + 1) >>)
                            ELSE NoFile ],
      recM |-> [ m \in {1, 2} |->
                   IF m = 2 THEN Mk6File(2, << WbHeader(4, 0) >>)
                            ELSE Mk6File(2, << WbHeader(2, wb_size + 1) >>) ],
      recV |-> [ m \in {1, 2} |->
                   IF m = 1 THEN Mk6File(1, << WbHeader(0, wb_size + 1) >>)
                            ELSE NoFile ],
      \* the second header of mountpoint 1 gives a size below that of a header;
      \* the file ends with that header
      recS |-> [ m \in {1, 2} |->
                   IF m = 1 THEN Mk6File(2, << WbHeader(0, wb_size + 1), WbHeader(1, 3) >>)
                            ELSE NoFile ],
      \* the only header of mountpoint 2 gives a size below that of a header
      recU |-> [ m \in {1, 2} |->
                   IF m = 2 THEN Mk6File(2, << WbHeader(0, 3) >>)
                            ELSE NoFile ],
      \* the block of mountpoint 1 is one byte short of what its header says
      recT |-> [ m \in {1, 2} |->
                   IF m = 1 THEN Mk6FileOfSize(MARK6_SG_SYNC_WORD, 2,
                                               << WbHeader(0, wb_size + 2) >>,
                                               fh_size + wb_size + 1)
                            ELSE NoFile ],
      \* mountpoint 1 holds a file that starts with another sync word
      recW |-> [ m \in {1, 2} |->
                   IF m = 1 THEN Mk6FileOfSize("deadbeef", 2, << WbHeader(0, wb_size + 1) >>,
                                               fh_size + wb_size + 1)
                            ELSE Mk6File(2, << WbHeader(1, wb_size + 1) >>) ],
      \* mountpoint 1 holds a file shorter than a file header
      recX |-> [ m \in {1, 2} |->
                   IF m = 1 THEN Mk6FileOfSize(MARK6_SG_SYNC_WORD, 2, << >>, fh_size - 1)
                            ELSE Mk6File(2, << WbHeader(0, wb_size + 1),
                                               WbHeader(1, wb_size + 2) >>) ],
      \* mountpoint 2 holds a version 1 file
      recY |-> [ m \in {1, 2} |->
                   IF m = 2 THEN Mk6File(1, << WbHeader(1, wb_size + 1) >>)
                            ELSE Mk6File(2, << WbHeader(0, wb_size + 1) >>) ],
      recN |-> [ m \in {1, 2} |-> NoFile ] ]

(* Names of the physical files: <<"vbs", mp, rec, digits>> is                *)
(* mp/rec/rec.digits, <<"mk6", mp, rec>> is mp/rec; <<>> is the empty       *)
(* string, which names no file.                                             *)
VbsPath(mp, rec, digits) == <<"vbs", mp, rec, digits>>
Mk6Path(mp, rec) == <<"mk6", mp, rec>>

PathExists(path) ==
    /\ path # <<>>
    /\ IF path[1] = "vbs"
       THEN /\ path[3] \in DOMAIN ScatteredDisk
            /\ path[2] \in DOMAIN ScatteredDisk[path[3]]
            /\ \E e \in ScatteredDisk[path[3]][path[2]].entries : e.digits = path[4]
       ELSE /\ path[3] \in DOMAIN Mk6Disk
            /\ path[2] \in DOMAIN Mk6Disk[path[3]]
            /\ Mk6Disk[path[3]][path[2]].exists

PhysSize(path) ==
    IF path[1] = "vbs"
    THEN (CHOOSE e \in ScatteredDisk[path[3]][path[2]].entries : e.digits = path[4]).size
    ELSE Mk6Disk[path[3]][path[2]].size

\* the bytes that no read can deliver (EIO): the last byte of the second
\* chunk of recB
BadSectors == { <<VbsPath(2, "recB", Digits8(1)), 1>> }

----------------------------------------------------------------------------
(* The operating system: open(2), close(2), lseek(2)+read(2) *)

Tty == <<"tty">>    \* what stdin, stdout and stderr are open on

LowestFree(os) == SeqMin({n \in 0..(Cardinality(DOMAIN os)) : n \notin DOMAIN os})

\* ::open(path, O_RDONLY): the new descriptor, or -1 when the path names no
\* file (ENOENT) or the process has FdLimit descriptors open (EMFILE)
OsOpen(os, path) ==
    IF PathExists(path) /\ LowestFree(os) < FdLimit
    THEN LET fd == LowestFree(os)
         IN [fd |-> fd, os |-> [x \in DOMAIN os \cup {fd} |-> IF x = fd THEN path ELSE os[x]]]
    ELSE [fd |-> -1, os |-> os]

\* ::close(fd): a descriptor that is not open is left alone (EBADF)
OsClose(os, fd) == [x \in DOMAIN os \ {fd} |-> os[x]]

\* the bytes from pos on that can be read before a bad sector, at most k
GoodRun(file, pos, k) ==
    Cardinality({j \in 1..k : \A i \in 0..(j - 1) : <<file, pos + i>> \notin BadSectors})

\* ::lseek(fd, pos, SEEK_SET) then ::read(fd, buf, n), the OS delivering at
\* most maxio bytes per call: the bytes of the file from pos on, none at or
\* past its end; -1 when fd is not an open descriptor of a disk file (EBADF)
\* or when the first byte asked for is in a bad sector (EIO)
OsRead(os, fd, pos, n, maxio) ==
    IF fd \notin DOMAIN os \/ os[fd][1] \in {"tty", "other"} THEN [n |-> -1, bytes |-> <<>>]
    ELSE LET avail == PhysSize(os[fd]) - pos
             want  == IF n < maxio THEN n ELSE maxio
             k     == IF avail <= 0 THEN 0 ELSE IF want < avail THEN want ELSE avail
             g     == GoodRun(os[fd], pos, k)
         IN IF k > 0 /\ g = 0 THEN [n |-> -1, bytes |-> <<>>]
            ELSE [n |-> g, bytes |-> [j \in 1..g |-> <<os[fd], pos + j - 1>>]]

----------------------------------------------------------------------------
(* filechunk_type *)

RECURSIVE Strtoul10(_)
\* strtoul(digits, 0, 10): base 10 whatever the leading zeroes
Strtoul10(ds) ==
    IF ds = <<>> THEN 0
    ELSE 10 * Strtoul10(SubSeq(ds, 1, Len(ds) - 1)) + ds[Len(ds)]

\* filechunk_type(string const& fnm): a FlexBuff chunk, one file of its own;
\* its size is found by opening the file, seeking to its end and closing it
filechunk_vbs(path) ==
    [ pathToChunk |-> path, chunkSize |-> PhysSize(path), chunkPos |-> 0,
      chunkFd |-> invalidFileDescriptor, chunkOffset |-> 0,
      chunkNumber |-> Strtoul10(path[4]) ]

\* filechunk_type(chunk, fpos, sz, fd): a Mark6 block inside the file open on fd
filechunk_mk6(chunk, fpos, sz, fd) ==
    [ pathToChunk |-> <<>>, chunkSize |-> sz, chunkPos |-> fpos,
      chunkFd |-> -fd, chunkOffset |-> 0, chunkNumber |-> chunk ]

\* the copy constructor: only a Mark6 descriptor (negative) is copied
filechunk_copy(other) ==
    [other EXCEPT !.chunkFd = IF other.chunkFd < 0 THEN other.chunkFd
                              ELSE invalidFileDescriptor]

\* open_chunk(): the descriptor to read from and the chunk as it is afterwards
ChunkOpened(c, o) ==
    [realfd |-> IF o.fd = -1 THEN invalidFileDescriptor ELSE o.fd,
     chunk  |-> [c EXCEPT !.chunkFd = IF o.fd = -1 THEN invalidFileDescriptor ELSE o.fd],
     os     |-> o.os]

open_chunk(os, c) ==
    IF c.chunkFd = invalidFileDescriptor
    THEN ChunkOpened(c, OsOpen(os, c.pathToChunk))
    ELSE [realfd |-> IF c.chunkFd < 0 THEN -c.chunkFd ELSE c.chunkFd,
          chunk  |-> c, os |-> os]

OwnsFd(c) == c.chunkFd >= 0 /\ c.chunkFd # invalidFileDescriptor

\* close_chunk(): closes a descriptor of the chunk's own, never a Mark6 one
close_chunk(os, c) ==
    IF OwnsFd(c)
    THEN [chunk |-> [c EXCEPT !.chunkFd = invalidFileDescriptor],
          os |-> OsClose(os, c.chunkFd)]
    ELSE [chunk |-> c, os |-> os]

\* ~filechunk_type()
filechunk_dtor(os, c) == IF OwnsFd(c) THEN OsClose(os, c.chunkFd) ELSE os

RECURSIVE DestroyChunks(_, _)
\* destruction of a filechunks_type: every element's destructor runs
DestroyChunks(os, cs) ==
    IF cs = <<>> THEN os ELSE DestroyChunks(filechunk_dtor(os, Head(cs)), Tail(cs))

\* operator<: chunks are ordered by chunkNumber and by nothing else
ChunkLess(l, r) == l.chunkNumber < r.chunkNumber

\* filechunks_type::insert(c): a copy of c goes into the set unless an
\* equivalent element is there already; second tells which
InsertChunk(cs, c) ==
    IF \E i \in 1..Len(cs) : ~ChunkLess(cs[i], c) /\ ~ChunkLess(c, cs[i])
    THEN [set |-> cs, second |-> FALSE]
    ELSE LET lo == {i \in 1..Len(cs) : ChunkLess(cs[i], c)}
             k  == Cardinality(lo)
         IN [set |-> SubSeq(cs, 1, k) \o <<filechunk_copy(c)>> \o SubSeq(cs, k + 1, Len(cs)),
             second |-> TRUE]

\* copy of a whole set: every element copy-constructed
CopyChunks(cs) == [i \in 1..Len(cs) |-> filechunk_copy(cs[i])]

----------------------------------------------------------------------------
(* Discovery of a FlexBuff recording *)

\* the directory entries that isRecordingChunk accepts, in name order
DirEntries(rec, mp) ==
    SetToSortedSeq({Strtoul10(e.digits) : e \in ScatteredDisk[rec][mp].entries})

RECURSIVE scanRecordingDirectoryLogsDuplicate(_, _, _, _)
\* scanRecordingDirectory passing over a duplicate, as the Mark6 merge does
scanRecordingDirectoryLogsDuplicate(rec, mp, todo, st) ==
    IF st.throw \/ todo = <<>> THEN st
    ELSE LET r == InsertChunk(st.fcs, filechunk_vbs(VbsPath(mp, rec, Digits8(Head(todo)))))
         IN scanRecordingDirectoryLogsDuplicate(rec, mp, Tail(todo),
                [fcs |-> r.set, throw |-> FALSE])

RECURSIVE scanRecordingDirectory(_, _, _, _)
\* inserts every chunk file of the directory; a duplicate insert throws
scanRecordingDirectory(rec, mp, todo, st) ==
    IF st.throw \/ todo = <<>> THEN st
    ELSE LET r == InsertChunk(st.fcs, filechunk_vbs(VbsPath(mp, rec, Digits8(Head(todo)))))
         IN scanRecordingDirectory(rec, mp, Tail(todo),
                [fcs |-> r.set, throw |-> ~r.second])

\* lstat of mp/rec: absent or not a directory is skipped
scanRecordingMountpoint(rec, mp, st) ==
    IF rec \notin DOMAIN ScatteredDisk \/ ~ScatteredDisk[rec][mp].exists THEN st
    ELSE scanRecordingDirectory(rec, mp, DirEntries(rec, mp), st)

RECURSIVE scanRecording(_, _, _)
scanRecording(rec, mps, st) ==
    IF st.throw \/ mps = <<>> THEN st
    ELSE scanRecording(rec, Tail(mps), scanRecordingMountpoint(rec, Head(mps), st))

----------------------------------------------------------------------------
(* Discovery of a Mark6 recording *)

RECURSIVE Mk6Blocks(_, _, _, _)

\* the block's chunk tmp has been inserted (r) and the temporary destroyed
Mk6Inserted(fd, file, i, st, r, os1) ==
    IF ~r.second
    THEN [st EXCEPT !.os = OsClose(os1, fd), !.throw = TRUE]
    ELSE Mk6Blocks(fd, file, i + 1, [st EXCEPT !.os = os1, !.rv = r.set])

\* the write-block header wbh, found at fpos
Mk6Block(fd, file, i, st, wbh, tmp) ==
    IF ~(wbh.blocknum >= 0 /\ wbh.wb_size > 0)
    THEN [st EXCEPT !.os = OsClose(st.os, fd), !.throw = TRUE]
    ELSE Mk6Inserted(fd, file, i, st, InsertChunk(st.rv, tmp), filechunk_dtor(st.os, tmp))

\* the loop over the write-block headers of the file open on fd
\* st = [os, rv, throw]; i is the next header; it starts at
\* fpos = fh_size + the sizes of the blocks before it
Mk6Blocks(fd, file, i, st) ==
    IF \/ i > Len(file.blocks)
       \/ fh_size + BlocksLen(SubSeq(file.blocks, 1, i - 1)) + wb_size > file.size
       \/ fd \notin DOMAIN st.os
    THEN st
    ELSE Mk6Block(fd, file, i, st, file.blocks[i],
                  filechunk_mk6(file.blocks[i].blocknum,
                                fh_size + BlocksLen(SubSeq(file.blocks, 1, i - 1)) + wb_size,
                                file.blocks[i].wb_size - wb_size, fd))

\* Mk6FileOpened that takes a file of any version
Mk6FileOpenedAnyVersion(file, o) ==
    IF file.size < fh_size \/ file.sync_word # MARK6_SG_SYNC_WORD
    THEN [os |-> OsClose(o.os, o.fd), rv |-> <<>>, throw |-> FALSE]
    ELSE Mk6Blocks(o.fd, file, 1, [os |-> o.os, rv |-> <<>>, throw |-> FALSE])

\* scanMk6RecordingFile: a file that has no whole file header or is not a
\* version 2 Mark6 file is closed and skipped; otherwise fd stays open and
\* the chunks refer to it
Mk6FileOpened(file, o) ==
    IF file.size < fh_size \/ file.sync_word # MARK6_SG_SYNC_WORD \/ file.version # 2
    THEN [os |-> OsClose(o.os, o.fd), rv |-> <<>>, throw |-> FALSE]
    ELSE Mk6Blocks(o.fd, file, 1, [os |-> o.os, rv |-> <<>>, throw |-> FALSE])

scanMk6RecordingFile(os, rec, mp) ==
    Mk6FileOpened(Mk6Disk[rec][mp], OsOpen(os, Mk6Path(mp, rec)))

RECURSIVE Mk6Merge(_, _)
\* under the mutex: every local chunk is inserted; a duplicate is only logged
Mk6Merge(fcs, lcl) ==
    IF lcl = <<>> THEN fcs ELSE Mk6Merge(InsertChunk(fcs, Head(lcl)).set, Tail(lcl))

\* the worker once its file is scanned (s): the merge, then the end of lcl.
\* An exception of scanMk6RecordingFile leaves the start routine of the
\* thread, which nothing catches: the merge is not made
Mk6Scanned(st, s) ==
    IF s.throw THEN [st EXCEPT !.os = s.os, !.throw = TRUE]
    ELSE [os    |-> DestroyChunks(s.os, s.rv),
          fcs   |-> Mk6Merge(st.fcs, s.rv),
          throw |-> FALSE]

\* one worker: st = [os, fcs, throw]
scanMk6RecordingMountpoint_thrd(rec, mp, st) ==
    IF rec \notin DOMAIN Mk6Disk \/ ~Mk6Disk[rec][mp].exists THEN st
    ELSE Mk6Scanned(st, scanMk6RecordingFile(st.os, rec, mp))

RECURSIVE scanMk6Recording(_, _, _)
\* one worker per mountpoint, all joined; order is the order in which the
\* workers happen to run
scanMk6Recording(rec, order, st) ==
    IF st.throw \/ order = <<>> THEN st
    ELSE scanMk6Recording(rec, Tail(order),
                          scanMk6RecordingMountpoint_thrd(rec, Head(order), st))

\* the orders in which the workers of a set of mountpoints can run
Orders(mps) ==
    {o \in UNION {[1..n -> mps] : n \in {Cardinality(mps)}} :
        \A i, j \in DOMAIN o : i # j => o[i] # o[j]}

----------------------------------------------------------------------------
(* openfile_type *)

RECURSIVE AssignOffsetsAfter(_, _, _)
\* AssignOffsets adding the chunk's size before it sets the chunk's offset
AssignOffsetsAfter(done, todo, fileSize) ==
    IF todo = <<>> THEN [fileChunks |-> done, fileSize |-> fileSize]
    ELSE AssignOffsetsAfter(
             Append(done, [Head(todo) EXCEPT !.chunkOffset = fileSize + Head(todo).chunkSize]),
             Tail(todo), fileSize + Head(todo).chunkSize)

RECURSIVE AssignOffsets(_, _, _)
\* the constructor's walk over fileChunks, done being the chunks walked so
\* far: chunkOffset is the recording size counted so far, and the chunk's
\* size is added to the recording size
AssignOffsets(done, todo, fileSize) ==
    IF todo = <<>> THEN [fileChunks |-> done, fileSize |-> fileSize]
    ELSE AssignOffsets(Append(done, [Head(todo) EXCEPT !.chunkOffset = fileSize]),
                       Tail(todo), fileSize + Head(todo).chunkSize)

\* the members once the walk w is over; chunkPtr = fileChunks.begin()
OpenFile(w) ==
    [ filePointer |-> 0,
      fileSize    |-> w.fileSize,
      fileChunks  |-> w.fileChunks,
      chunkPtr    |-> 1 ]

\* openfile_type(filechunks_type const& fcs)
openfile_type(fcs) == OpenFile(AssignOffsets(<<>>, CopyChunks(fcs), 0))

\* openfile_copy that leaves fileSize out of its initializers
openfile_copy_nosize(other) ==
    [ filePointer |-> 0,
      fileSize    |-> 0,
      fileChunks  |-> CopyChunks(other.fileChunks),
      chunkPtr    |-> 1 ]

\* openfile_copy that takes the position and the cursor of the source along
openfile_copy_cursor(other) ==
    [ filePointer |-> other.filePointer,
      fileSize    |-> other.fileSize,
      fileChunks  |-> CopyChunks(other.fileChunks),
      chunkPtr    |-> other.chunkPtr ]

\* openfile_type(openfile_type const& other)
openfile_copy(other) ==
    [ filePointer |-> 0,
      fileSize    |-> other.fileSize,
      fileChunks  |-> CopyChunks(other.fileChunks),
      chunkPtr    |-> 1 ]

RECURSIVE CloseChunks(_, _)
CloseChunks(os, cs) ==
    IF cs = <<>> THEN os ELSE CloseChunks(close_chunk(os, Head(cs)).os, Tail(cs))

\* ~openfile_type(): close_chunk() on every chunk (their destructors then
\* find nothing left to close)
openfile_dtor(os, of) == CloseChunks(os, of.fileChunks)

ChunksEnd(of) == Len(of.fileChunks) + 1

----------------------------------------------------------------------------
(* The handle table *)

\* NewHandle with the smallest key taken as it is
NewHandleNoDecrement(tbl) ==
    IF DOMAIN tbl = {} THEN IntMax ELSE SeqMin(DOMAIN tbl)

\* NewHandle counting down from -1
NewHandleNegative(tbl) ==
    IF DOMAIN tbl = {} THEN -1 ELSE SeqMin(DOMAIN tbl) - 1

\* NewHandle counting the open files
NewHandleByCount(tbl) == IntMax - Cardinality(DOMAIN tbl)

\* the descriptor of a new file: max int for an empty table, else one
\* below the smallest key
NewHandle(tbl) ==
    IF DOMAIN tbl = {} THEN IntMax ELSE SeqMin(DOMAIN tbl) - 1

\* openedFiles.insert(make_pair(fd, openfile_type(chunks))): the pair is
\* copied twice on its way into the map; an existing key is left alone
MapInsert(tbl, fd, of) ==
    IF fd \in DOMAIN tbl THEN tbl
    ELSE [h \in DOMAIN tbl \cup {fd} |->
            IF h = fd THEN openfile_copy(openfile_copy(of)) ELSE tbl[h]]

\* MapErase that leaves the entry in
MapEraseNothing(tbl, fd) == tbl

\* openedFiles.erase(fptr)
MapErase(tbl, fd) == [h \in DOMAIN tbl \ {fd} |-> tbl[h]]

----------------------------------------------------------------------------
(* vbs_read *)

Min2(a, b) == IF a < b THEN a ELSE b

SetChunk(of, c) == [of EXCEPT !.fileChunks[of.chunkPtr] = c]

RECURSIVE ReadLoop(_, _)
\* while( nr ) { ... }; st = [of, os, nr, out, hang, oserr]; out is what has
\* been written to the caller's buffer; hang says that the loop cannot end,
\* which is what a read of no bytes leads to; oserr says that ::open or
\* ::read has failed

\* n2r<=0: the chunk has been closed (cc), on to the next one
ReadNextChunk(st, cc) ==
    [st EXCEPT !.os = cc.os,
               !.of = [SetChunk(st.of, cc.chunk) EXCEPT !.chunkPtr = st.of.chunkPtr + 1]]

\* open_chunk() has been called (oc)
ReadOpened(st, oc) == [st EXCEPT !.os = oc.os, !.of = SetChunk(st.of, oc.chunk)]

\* ReadGot that does not move the file pointer
ReadGotNoAdvance(s1, rd, maxio) ==
    IF rd.n < 0 THEN [s1 EXCEPT !.oserr = TRUE]
    ELSE IF rd.n = 0 THEN [s1 EXCEPT !.hang = TRUE]
    ELSE ReadLoop([s1 EXCEPT !.nr = s1.nr - rd.n,
                             !.out = s1.out \o rd.bytes], maxio)

\* ::read has returned (rd): an error ends the loop, bytes update the pointers
ReadGot(s1, rd, maxio) ==
    IF rd.n < 0 THEN [s1 EXCEPT !.oserr = TRUE]
    ELSE IF rd.n = 0 THEN [s1 EXCEPT !.hang = TRUE]
    ELSE ReadLoop([s1 EXCEPT !.nr = s1.nr - rd.n,
                             !.out = s1.out \o rd.bytes,
                             !.of.filePointer = s1.of.filePointer + rd.n], maxio)

\* ReadChunk seeking in the physical file without the chunk's position in it
ReadChunkNoPos(st, chunk, n2r, oc, maxio) ==
    IF oc.realfd = invalidFileDescriptor
    THEN [ReadOpened(st, oc) EXCEPT !.oserr = TRUE]
    ELSE ReadGot(ReadOpened(st, oc),
                 OsRead(oc.os, oc.realfd, st.of.filePointer - chunk.chunkOffset,
                        n2r, maxio),
                 maxio)

\* ReadChunk going on to the next chunk when this one cannot be opened
ReadChunkSkipsUnopened(st, chunk, n2r, oc, maxio) ==
    IF oc.realfd = invalidFileDescriptor
    THEN ReadLoop([ReadOpened(st, oc) EXCEPT !.oserr = TRUE,
                                             !.of.chunkPtr = st.of.chunkPtr + 1], maxio)
    ELSE ReadGot(ReadOpened(st, oc),
                 OsRead(oc.os, oc.realfd,
                        st.of.filePointer - chunk.chunkOffset + chunk.chunkPos,
                        n2r, maxio),
                 maxio)

\* n2r>0: read from the chunk unless it cannot be opened
ReadChunk(st, chunk, n2r, oc, maxio) ==
    IF oc.realfd = invalidFileDescriptor
    THEN [ReadOpened(st, oc) EXCEPT !.oserr = TRUE]
    ELSE ReadGot(ReadOpened(st, oc),
                 OsRead(oc.os, oc.realfd,
                        st.of.filePointer - chunk.chunkOffset + chunk.chunkPos,
                        n2r, maxio),
                 maxio)

\* ReadAt going on to the next chunk with the descriptor of this one open
ReadAtLeavesOpen(st, chunk, n2r, maxio) ==
    IF n2r <= 0
    THEN ReadLoop(ReadNextChunk(st, [os |-> st.os, chunk |-> chunk]), maxio)
    ELSE ReadChunk(st, chunk, n2r, open_chunk(st.os, chunk), maxio)

ReadAt(st, chunk, n2r, maxio) ==
    IF n2r <= 0
    THEN ReadLoop(ReadNextChunk(st, close_chunk(st.os, chunk)), maxio)
    ELSE ReadChunk(st, chunk, n2r, open_chunk(st.os, chunk), maxio)

ReadLoop(st, maxio) ==
    IF st.nr = 0 \/ st.of.chunkPtr = ChunksEnd(st.of) THEN st
    ELSE ReadAt(st, st.of.fileChunks[st.of.chunkPtr],
                Min2(st.nr, st.of.fileChunks[st.of.chunkPtr].chunkOffset
                            + st.of.fileChunks[st.of.chunkPtr].chunkSize
                            - st.of.filePointer),
                maxio)

ReadResult(rv, err, tbl, os, bytes, hang, oserr) ==
    [rv |-> rv, err |-> err, tbl |-> tbl, os |-> os, bytes |-> bytes,
     hang |-> hang, oserr |-> oserr]

\* return (ssize_t)(count-nr)
ReadDone(tbl, fd, count, st) ==
    ReadResult(count - st.nr, NoErr, [tbl EXCEPT ![fd] = st.of], st.os, st.out,
               st.hang, st.oserr)

\* vbs_read_fn looking at the buffer and the count before the handle
vbs_read_buf_first(tbl, os, fd, buf, count, maxio) ==
    IF buf = NullPtr THEN ReadResult(-1, EFAULT, tbl, os, <<>>, FALSE, FALSE)
    ELSE IF count = 0 THEN ReadResult(0, NoErr, tbl, os, <<>>, FALSE, FALSE)
    ELSE IF fd \notin DOMAIN tbl THEN ReadResult(-1, EBADF, tbl, os, <<>>, FALSE, FALSE)
    ELSE IF tbl[fd].chunkPtr = ChunksEnd(tbl[fd]) THEN ReadResult(0, NoErr, tbl, os, <<>>, FALSE, FALSE)
    ELSE ReadDone(tbl, fd, count,
                  ReadLoop([of |-> tbl[fd], os |-> os, nr |-> count,
                            out |-> <<>>, hang |-> FALSE, oserr |-> FALSE], maxio))

\* vbs_read(fd, buf, count): [rv, err, tbl, os, bytes, hang, oserr]
vbs_read_fn(tbl, os, fd, buf, count, maxio) ==
    IF fd \notin DOMAIN tbl THEN ReadResult(-1, EBADF, tbl, os, <<>>, FALSE, FALSE)
    ELSE IF buf = NullPtr THEN ReadResult(-1, EFAULT, tbl, os, <<>>, FALSE, FALSE)
    ELSE IF count = 0 THEN ReadResult(0, NoErr, tbl, os, <<>>, FALSE, FALSE)
    ELSE IF tbl[fd].chunkPtr = ChunksEnd(tbl[fd]) THEN ReadResult(0, NoErr, tbl, os, <<>>, FALSE, FALSE)
    ELSE ReadDone(tbl, fd, count,
                  ReadLoop([of |-> tbl[fd], os |-> os, nr |-> count,
                            out |-> <<>>, hang |-> FALSE, oserr |-> FALSE], maxio))

----------------------------------------------------------------------------
(* vbs_lseek *)

RECURSIVE SkipTo(_, _, _)
\* while( newchunk!=end && newfp>(chunkOffset+chunkSize) ) newchunk++
SkipTo(of, newfp, newchunk) ==
    IF newchunk # ChunksEnd(of)
       /\ newfp > of.fileChunks[newchunk].chunkOffset + of.fileChunks[newchunk].chunkSize
    THEN SkipTo(of, newfp, newchunk + 1)
    ELSE newchunk

SeekResult(rv, err, tbl, os) == [rv |-> rv, err |-> err, tbl |-> tbl, os |-> os]

\* SeekMoved that lets the file grow to a position past its end
SeekMovedGrows(tbl, fd, newfp, newchunk, cc) ==
    SeekResult(newfp, NoErr,
               [tbl EXCEPT ![fd] = [SetChunk(tbl[fd], cc.chunk) EXCEPT
                                       !.filePointer = newfp, !.chunkPtr = newchunk,
                                       !.fileSize = IF newfp > tbl[fd].fileSize THEN newfp
                                                    ELSE tbl[fd].fileSize]],
               cc.os)

\* the current chunk is unobserved (cc) and the open file status updated
SeekMoved(tbl, fd, newfp, newchunk, cc) ==
    SeekResult(newfp, NoErr,
               [tbl EXCEPT ![fd] = [SetChunk(tbl[fd], cc.chunk) EXCEPT
                                       !.filePointer = newfp, !.chunkPtr = newchunk]],
               cc.os)

\* skip to the chunk that holds the new file pointer
SeekTo(tbl, os, fd, newfp, newchunk) ==
    IF tbl[fd].chunkPtr # newchunk /\ tbl[fd].chunkPtr # ChunksEnd(tbl[fd])
    THEN SeekMoved(tbl, fd, newfp, newchunk,
                   close_chunk(os, tbl[fd].fileChunks[tbl[fd].chunkPtr]))
    ELSE SeekResult(newfp, NoErr,
                    [tbl EXCEPT ![fd].filePointer = newfp, ![fd].chunkPtr = newchunk],
                    os)

\* SeekNewfp without the check of the sign
SeekNewfpUnchecked(tbl, os, fd, newfp) ==
    IF newfp = tbl[fd].filePointer THEN SeekResult(tbl[fd].filePointer, NoErr, tbl, os)
    ELSE SeekTo(tbl, os, fd, newfp, SkipTo(tbl[fd], newfp, 1))

\* if( newfp<0 ) ...; if( newfp==of.filePointer ) ...; else the skip
SeekNewfp(tbl, os, fd, newfp) ==
    IF newfp < 0 THEN SeekResult(-1, EINVAL, tbl, os)
    ELSE IF newfp = tbl[fd].filePointer THEN SeekResult(tbl[fd].filePointer, NoErr, tbl, os)
    ELSE SeekTo(tbl, os, fd, newfp, SkipTo(tbl[fd], newfp, 1))

\* vbs_lseek(fd, offset, whence): [rv, err, tbl, os]
vbs_lseek_fn(tbl, os, fd, offset, whence) ==
    IF fd \notin DOMAIN tbl THEN SeekResult(-1, EBADF, tbl, os)
    ELSE IF whence = SEEK_SET THEN SeekNewfp(tbl, os, fd, offset)
    ELSE IF whence = SEEK_END THEN SeekNewfp(tbl, os, fd, tbl[fd].fileSize + offset)
    ELSE IF whence = SEEK_CUR THEN SeekNewfp(tbl, os, fd, tbl[fd].filePointer + offset)
    ELSE SeekResult(-1, EINVAL, tbl, os)

----------------------------------------------------------------------------
(* cleanup_type *)

RECURSIVE ClearTable(_, _)
\* openedFiles.clear(): the open files are destroyed one after the other
ClearTable(tbl, os) ==
    IF DOMAIN tbl = {} THEN os
    ELSE LET h == SeqMin(DOMAIN tbl)
         IN ClearTable(MapErase(tbl, h), openfile_dtor(os, tbl[h]))

\* ~cleanup_type(): [tbl, os]
cleanup_dtor(tbl, os) == [tbl |-> <<>>, os |-> ClearTable(tbl, os)]

----------------------------------------------------------------------------
(* vbs_close *)

RECURSIVE CloseAll(_, _)
CloseAll(os, fds) ==
    IF fds = {} THEN os
    ELSE LET p == SeqMin(fds) IN CloseAll(OsClose(os, -p), fds \ {p})

\* vbs_close(fd): [rv, err, tbl, os]
vbs_close_fn(tbl, os, fd) ==
    IF fd \notin DOMAIN tbl THEN [rv |-> -1, err |-> EBADF, tbl |-> tbl, os |-> os]
    ELSE LET cs     == tbl[fd].fileChunks
             mk6fds == {cs[i].chunkFd : i \in {j \in 1..Len(cs) : cs[j].chunkFd < 0}}
             os1    == openfile_dtor(os, tbl[fd])
         IN [rv |-> 0, err |-> NoErr, tbl |-> MapErase(tbl, fd),
             os |-> CloseAll(os1, mk6fds)]

----------------------------------------------------------------------------
(* vbs_open and mk6_open, in two steps: the sanity checks and the scan of   *)
(* the mountpoints, which take no lock, and then the insertion into the     *)
(* handle table under the write lock.                                       *)

Range(f) == {f[i] : i \in DOMAIN f}

\* OpenArgsBad accepting an empty name
OpenArgsBadNullOnly(recname, rootdirs) ==
    recname = NullPtr \/ rootdirs.null

OpenArgsBad(recname, rootdirs) ==
    recname = NullPtr \/ recname = "" \/ rootdirs.null

\* up to the write lock: [done, rv, err, os, chunks]; done says that the
\* call is over (err "vbs_except": by an exception, nothing is returned;
\* err Terminated: by the end of the process, an exception having left a
\* thread of the Mark6 scan, which pthread_join cannot hand to the caller)
Terminated == "std::terminate"

ScanResult(done, rv, err, os, chunks) ==
    [done |-> done, rv |-> rv, err |-> err, os |-> os, chunks |-> chunks]

VbsScanned(os, st) ==
    IF st.throw THEN ScanResult(TRUE, -1, "vbs_except", os, <<>>)
    ELSE IF st.fcs = <<>> THEN ScanResult(TRUE, -1, ENOENT, os, <<>>)
    ELSE ScanResult(FALSE, 0, NoErr, os, st.fcs)

vbs_open_scan_fn(os, recname, rootdirs) ==
    IF OpenArgsBad(recname, rootdirs) THEN ScanResult(TRUE, -1, EINVAL, os, <<>>)
    ELSE VbsScanned(os, scanRecording(recname, SetToSortedSeq(Range(rootdirs.dirs)),
                                      [fcs |-> <<>>, throw |-> FALSE]))

Mk6Scan(st) ==
    IF st.throw THEN ScanResult(TRUE, -1, Terminated, st.os, <<>>)
    ELSE IF st.fcs = <<>> THEN ScanResult(TRUE, -1, ENOENT, st.os, <<>>)
    ELSE ScanResult(FALSE, 0, NoErr, st.os, st.fcs)

mk6_open_scan_fn(os, recname, rootdirs, order) ==
    IF OpenArgsBad(recname, rootdirs) THEN ScanResult(TRUE, -1, EINVAL, os, <<>>)
    ELSE Mk6Scan(scanMk6Recording(recname, order,
                                  [os |-> os, fcs |-> <<>>, throw |-> FALSE]))

\* under the write lock: the new descriptor, the insertion, and the end of
\* the temporary and of the local chunk set: [rv, tbl, os]
OpenInsertWith(tbl, os, chunks, fd, tmp) ==
    [rv  |-> fd,
     tbl |-> MapInsert(tbl, fd, tmp),
     os  |-> DestroyChunks(openfile_dtor(os, tmp), chunks)]

open_insert_fn(tbl, os, chunks) ==
    OpenInsertWith(tbl, os, chunks, NewHandle(tbl), openfile_type(chunks))

----------------------------------------------------------------------------
(* What the callers and an observer keep track of.  An event is the call    *)
(* that has just returned: [op, fd, a1, a2, rv, err]; for read a1 is the    *)
(* buffer and a2 the count, for seek a1 is the offset and a2 the whence.    *)

Event(op, fd, a1, a2, rv, err) ==
    [op |-> op, fd |-> fd, a1 |-> a1, a2 |-> a2, rv |-> rv, err |-> err]

Opened(ev) == ev.op = "open" /\ ev.err = NoErr
Closed(ev) == ev.op = "close" /\ ev.rv = 0

Restrict(f, S) == [x \in S |-> f[x]]

\* what an open call was asked for, and (once it has returned a handle) the
\* chunks and the size of the file it installed
Org(kind, rec, mps) ==
    [kind |-> kind, rec |-> rec, mps |-> mps, layout |-> <<>>, size |-> 0]

\* the same, with the descriptors the process had open when open was called
OrgAt(kind, rec, mps, os) ==
    [kind |-> kind, rec |-> rec, mps |-> mps, layout |-> <<>>, size |-> 0,
     fds |-> DOMAIN os]

\* the event of an open call; the caller of SpecScan notes what it asked for
OpenEvent(mode, org, rv, err) ==
    IF mode = "scan" THEN Event("open", 0, <<org.kind, org.rec>>, org.mps, rv, err)
    ELSE Event("open", 0, 0, 0, rv, err)

\* the process has neither been terminated nor left main()
Running == ret.err # Terminated /\ ret.op # "exit"

Layout(of) ==
    [i \in 1..Len(of.fileChunks) |->
        [chunkNumber |-> of.fileChunks[i].chunkNumber,
         chunkSize   |-> of.fileChunks[i].chunkSize,
         chunkOffset |-> of.fileChunks[i].chunkOffset]]

\* closed: some close of the handle had succeeded; dead: and no open has
\* returned it since; again: open had returned this handle before, and
\* since then the table was empty at some moment (empty), held no handle <=
\* this one at some moment (low); keys: the table at the insertion; prev:
\* lastOpen
NoWas == [closed |-> FALSE, dead |-> FALSE, again |-> FALSE, empty |-> FALSE,
          low |-> FALSE, keys |-> {}, prev |-> {}]

TrackTable(ev, tbl1) ==
    /\ live' = IF Opened(ev) THEN live (+) SetToBag({ev.rv})
               ELSE IF Closed(ev) THEN live (-) SetToBag({ev.fd})
               ELSE live
    /\ everClosed' = IF Closed(ev) THEN everClosed \cup {ev.fd} ELSE everClosed
    /\ dead' = IF Closed(ev) THEN dead \cup {ev.fd}
               ELSE IF Opened(ev) THEN dead \ {ev.rv}
               ELSE dead
    /\ sinceRet' =
         LET dom == DOMAIN sinceRet \cup (IF Opened(ev) THEN {ev.rv} ELSE {})
         IN [g \in dom |->
               IF Opened(ev) /\ g = ev.rv THEN [empty |-> FALSE, low |-> FALSE]
               ELSE [empty |-> sinceRet[g].empty \/ DOMAIN tbl1 = {},
                     low   |-> sinceRet[g].low \/ ~\E k \in DOMAIN tbl1 : k <= g]]
    /\ lastOpen' = IF Opened(ev) THEN {ev.rv}
                   ELSE IF Closed(ev) THEN {}
                   ELSE lastOpen
    /\ was' = IF Opened(ev)
              THEN [NoWas EXCEPT
                      !.again = ev.rv \in DOMAIN sinceRet,
                      !.empty = ev.rv \in DOMAIN sinceRet /\ sinceRet[ev.rv].empty,
                      !.low   = ev.rv \in DOMAIN sinceRet /\ sinceRet[ev.rv].low,
                      !.keys  = DOMAIN openedFiles,
                      !.prev  = lastOpen]
              ELSE IF ev.op = "open" THEN NoWas
              ELSE [NoWas EXCEPT !.closed = ev.fd \in everClosed,
                                 !.dead   = ev.fd \in dead]

TrackIO(ev, tbl1, bytes, org) ==
    LET h    == IF Opened(ev) THEN ev.rv ELSE ev.fd
        S    == IF h \in DOMAIN openedFiles THEN openedFiles[h].fileSize ELSE 0
        keep(f, v) == [x \in DOMAIN tbl1 |-> IF x = h THEN v ELSE f[x]]
    IN
    IF Opened(ev)
    THEN /\ stream' = keep(stream, Bytes(<<>>))
         /\ rt'     = keep(rt, <<>>)
         /\ phase'  = keep(phase, "none")
         /\ origin' = keep(origin, [org EXCEPT !.layout = Layout(tbl1[h]),
                                                !.size   = tbl1[h].fileSize])
    ELSE IF Closed(ev)
    THEN /\ stream' = Restrict(stream, DOMAIN tbl1)
         /\ rt'     = Restrict(rt, DOMAIN tbl1)
         /\ phase'  = Restrict(phase, DOMAIN tbl1)
         /\ origin' = Restrict(origin, DOMAIN tbl1)
    ELSE IF ev.op = "read" /\ h \in DOMAIN openedFiles
    THEN /\ stream' = keep(stream, IF ~bytes.ok THEN Void
                                   ELSE IF stream[h].ok
                                   THEN Bytes(stream[h].bytes \o bytes.bytes)
                                   ELSE stream[h])
         /\ rt'     = keep(rt, IF rt[h] # <<>> /\ rt[h][1] = "seek" /\ ev.rv >= 0
                               THEN <<"read", rt[h][2], ev.rv>> ELSE <<>>)
         /\ phase'  = keep(phase,
                           IF phase[h] = "past" THEN "past"
                           ELSE IF phase[h] = "rewound" /\ ev.a1 # NullPtr /\ ev.a2 = S
                                THEN "readS"
                           ELSE "none")
         /\ UNCHANGED origin
    ELSE IF ev.op = "seek" /\ h \in DOMAIN openedFiles
    THEN /\ stream' = keep(stream, Void)
         /\ rt'     = keep(rt, IF ev.a2 = SEEK_SET /\ 0 <= ev.a1 /\ ev.a1 <= S
                               THEN <<"seek", ev.a1>> ELSE <<>>)
         /\ phase'  = keep(phase,
                           IF ev.a2 = SEEK_SET /\ ev.a1 >= S THEN "past"
                           ELSE IF phase[h] = "past" /\ ev.a2 = SEEK_SET /\ ev.a1 = 0
                                THEN "rewound"
                           ELSE "none")
         /\ UNCHANGED origin
    ELSE UNCHANGED ioGhosts

Track(mode, ev, tbl1, bytes, org) ==
    IF mode = "table"
    THEN TrackTable(ev, tbl1) /\ UNCHANGED ioGhosts
    ELSE IF mode = "sync"
    THEN UNCHANGED <<tableGhosts, ioGhosts>>
    ELSE TrackIO(ev, tbl1, bytes, org) /\ UNCHANGED tableGhosts

----------------------------------------------------------------------------
(* The calls as steps of the system *)

\* the callers of Spec keep up to MaxOpen files open, the caller of SpecIO
\* works on one file at a time
OpenLimit(mode) == IF mode \in {"table", "sync"} THEN MaxOpen ELSE 1

Busy == Cardinality(DOMAIN openedFiles) + Cardinality({t \in Threads : pend[t] # Idle})

\* a call has returned: its effect on the table and on the process, and ev
Returned(mode, ev, tbl1, os1, bytes, org) ==
    /\ Running
    /\ openedFiles' = tbl1
    /\ osOpen' = os1
    /\ ret' = ev
    /\ Track(mode, ev, tbl1, bytes, org)

\* the scan of an open call by thread t; s is what the scan came to
OpenScanStep(mode, t, s, org) ==
    /\ pend[t] = Idle
    /\ IF s.done
       THEN /\ Returned(mode, OpenEvent(mode, org, s.rv, s.err),
                        openedFiles, s.os, Bytes(<<>>), org)
            /\ UNCHANGED pend
       ELSE /\ Running
            /\ Busy < OpenLimit(mode)
            /\ osOpen' = s.os
            /\ pend' = [pend EXCEPT ![t] = [op |-> "open", chunks |-> s.chunks, org |-> org]]
            /\ UNCHANGED <<openedFiles, ret, tableGhosts, ioGhosts>>

OpenInserted(mode, t, r) ==
    /\ pend' = [pend EXCEPT ![t] = Idle]
    /\ Returned(mode, OpenEvent(mode, pend[t].org, r.rv, NoErr), r.tbl, r.os, Bytes(<<>>),
                pend[t].org)

\* the insertion of an open call by thread t, under the write lock
OpenInsertStep(mode, t) ==
    /\ pend[t] # Idle
    /\ OpenInserted(mode, t, open_insert_fn(openedFiles, osOpen, pend[t].chunks))

ReadReturned(mode, fd, buf, count, r) ==
    /\ ~r.hang
    /\ UNCHANGED pend
    /\ Returned(mode, Event("read", fd, buf, count, r.rv, r.err), r.tbl, r.os,
                IF r.oserr THEN Void ELSE Bytes(r.bytes), Org("", "", <<>>))

ReadStep(mode, fd, buf, count, maxio) ==
    ReadReturned(mode, fd, buf, count,
                 vbs_read_fn(openedFiles, osOpen, fd, buf, count, maxio))

SeekReturned(mode, fd, offset, whence, r) ==
    /\ UNCHANGED pend
    /\ Returned(mode, Event("seek", fd, offset, whence, r.rv, r.err), r.tbl, r.os, Bytes(<<>>),
                Org("", "", <<>>))

SeekStep(mode, fd, offset, whence) ==
    SeekReturned(mode, fd, offset, whence,
                 vbs_lseek_fn(openedFiles, osOpen, fd, offset, whence))

CloseReturned(mode, fd, r) ==
    /\ UNCHANGED pend
    /\ Returned(mode, Event("close", fd, 0, 0, r.rv, r.err), r.tbl, r.os, Bytes(<<>>),
                Org("", "", <<>>))

CloseStep(mode, fd) == CloseReturned(mode, fd, vbs_close_fn(openedFiles, osOpen, fd))

\* main() returns while no call is in progress: the static cleanup object is
\* destroyed (r); what the caller had noted about its files stays as it was
ExitReturned(r) ==
    /\ Running
    /\ \A t \in Threads : pend[t] = Idle
    /\ openedFiles' = r.tbl
    /\ osOpen' = r.os
    /\ ret' = Event("exit", 0, 0, 0, 0, NoErr)
    /\ UNCHANGED <<pend, tableGhosts, ioGhosts>>

ExitStep == ExitReturned(cleanup_dtor(openedFiles, osOpen))

\* no file is open; stdio are the descriptors the process was started with
InitWith(stdio) ==
    /\ openedFiles = <<>>
    /\ osOpen = [fd \in stdio |-> Tty]
    /\ pend = [t \in Threads |-> Idle]
    /\ ret = Event("none", 0, 0, 0, 0, NoErr)
    /\ live = EmptyBag
    /\ everClosed = {}
    /\ dead = {}
    /\ sinceRet = <<>>
    /\ lastOpen = {}
    /\ was = NoWas
    /\ stream = <<>>
    /\ rt = <<>>
    /\ phase = <<>>
    /\ origin = <<>>

Init == InitWith({0, 1, 2})

----------------------------------------------------------------------------
(* Spec: the handle table under concurrent callers *)

VbsNames     == {"recF", "recN", NullPtr}
Mk6Names     == {"recE", ""}
TableDirs    == Dirs(<<1, 2>>)
TableHandles == {IntMax - k : k \in 0..MaxOpen}

vbs_open_scan ==
    \E t \in Threads, recname \in VbsNames :
        OpenScanStep("table", t, vbs_open_scan_fn(osOpen, recname, TableDirs),
                     Org("vbs", recname, TableDirs))

mk6_open_scan ==
    \E t \in Threads, recname \in Mk6Names :
        \E order \in Orders(Range(TableDirs.dirs)) :
            OpenScanStep("table", t, mk6_open_scan_fn(osOpen, recname, TableDirs, order),
                         Org("mk6", recname, TableDirs))

open_insert == \E t \in Threads : OpenInsertStep("table", t)

vbs_read == \E fd \in TableHandles : ReadStep("table", fd, "buf", 1, 1)

vbs_lseek == \E fd \in TableHandles : SeekStep("table", fd, 0, SEEK_END)

vbs_close == \E fd \in TableHandles : CloseStep("table", fd)

Next ==
    \/ vbs_open_scan
    \/ mk6_open_scan
    \/ open_insert
    \/ vbs_read
    \/ vbs_lseek
    \/ vbs_close

Spec == Init /\ [][Next]_vars

----------------------------------------------------------------------------
(* Properties of the handle table (Spec) *)

\* C1: handle uniqueness.  Whatever the interleaving of the opens and
\* closes, the handles that open has returned and that have not been closed
\* since are pairwise different (none is held twice), and they are exactly
\* the keys of the table; a successful open never returns a handle that is
\* a key of the table at the moment of insertion.
HandleUniqueness ==
    /\ \A h \in BagToSet(live) : CopiesIn(h, live) = 1
    /\ BagToSet(live) = DOMAIN openedFiles
    /\ (Opened(ret) => ret.rv \notin was.keys)

\* two files are open, the last one opened after an earlier close
HandleUniquenessWitness ==
    /\ Opened(ret)
    /\ Cardinality(DOMAIN openedFiles) = 2
    /\ everClosed # {}

\* C2 as stated: once close(h) has returned 0, every later read, seek or
\* close of h returns -1 with EBADF, whatever opens happen in between.
ClosedStaysBad ==
    (ret.op \in {"read", "seek", "close"} /\ was.closed)
        => (ret.rv = -1 /\ ret.err = EBADF)

\* C2, amended: once close(h) has returned 0, every later read, seek or
\* close of h returns -1 with EBADF until an open returns h again.
ClosedBadUntilReopened ==
    (ret.op \in {"read", "seek", "close"} /\ was.dead)
        => (ret.rv = -1 /\ ret.err = EBADF)

\* a read of a closed handle is refused while another file is open
ClosedBadWitness ==
    /\ ret.op = "read" /\ was.dead /\ ret.err = EBADF
    /\ DOMAIN openedFiles # {}

\* C3 as stated: if open returns h for the second time, the table was empty
\* at some moment since it last returned h.
ReuseOnlyAfterEmpty == (Opened(ret) /\ was.again) => was.empty

\* C3, amended: if open returns h for the second time, then at some moment
\* since it last returned h the table held no handle <= h (so h itself had
\* been closed); the table need not have been empty.
ReuseOnlyAfterLowest == (Opened(ret) /\ was.again) => was.low

\* a handle is returned again while an older file has stayed open
ReuseWitness ==
    /\ Opened(ret) /\ was.again /\ ~was.empty
    /\ Cardinality(DOMAIN openedFiles) = 2

\* C4 as stated: every handle returned by open is strictly negative, and
\* with no close in between each open returns a smaller handle than the
\* previous one.
HandlesNegativeDescending ==
    Opened(ret) => (ret.rv < 0 /\ \A p \in was.prev : ret.rv < p)

\* C4, amended: every handle returned by open is positive and at most
\* INT_MAX: it is INT_MAX when the table is empty and else one less than
\* the smallest handle of the table; with no close in between each open
\* returns a smaller handle than the previous one.
HandlesDescendFromIntMax ==
    Opened(ret) =>
        /\ 0 < ret.rv /\ ret.rv <= IntMax
        /\ ret.rv = (IF was.keys = {} THEN IntMax ELSE SeqMin(was.keys) - 1)
        /\ \A p \in was.prev : ret.rv < p

\* two opens in a row, the second one returning the smaller handle
HandlesDescendWitness ==
    /\ Opened(ret) /\ was.prev = {IntMax} /\ ret.rv = IntMax - 1

----------------------------------------------------------------------------
(* SpecIO: one caller reading and seeking in one recording at a time.  The *)
(* process may have been started with descriptor 0 closed.  The disks hold *)
(* what discovery found, and the OS reads deliver what is asked for or     *)
(* less (maxio), never an error.                                            *)

IoHandles == {IntMax}
Whences   == {SEEK_SET, SEEK_CUR, SEEK_END, SEEK_END + 1}
IoDirs    == Dirs(<<1, 2>>)

\* the offsets that keep a seek within PastEnd bytes past the end of fd
SeekOffsets(fd) ==
    IF fd \in DOMAIN openedFiles
    THEN -(openedFiles[fd].fileSize + PastEnd)..(openedFiles[fd].fileSize + PastEnd)
    ELSE {0}

SeekTarget(fd, offset, whence) ==
    IF fd \notin DOMAIN openedFiles THEN 0
    ELSE IF whence = SEEK_SET THEN offset
    ELSE IF whence = SEEK_CUR THEN openedFiles[fd].filePointer + offset
    ELSE IF whence = SEEK_END THEN openedFiles[fd].fileSize + offset
    ELSE 0

InitIO == \E stdio \in {{0, 1, 2}, {1, 2}} : InitWith(stdio)

io_vbs_open_scan ==
    \E recname \in {"recA", "recF"} :
        OpenScanStep("io", 1, vbs_open_scan_fn(osOpen, recname, IoDirs),
                     Org("vbs", recname, IoDirs))

io_mk6_open_scan ==
    \E recname \in {"recD", "recE"}, order \in Orders(Range(IoDirs.dirs)) :
        OpenScanStep("io", 1, mk6_open_scan_fn(osOpen, recname, IoDirs, order),
                     Org("mk6", recname, IoDirs))

io_open_insert == OpenInsertStep("io", 1)

io_vbs_read ==
    \E fd \in IoHandles, count \in 0..MaxCount, maxio \in {1, MaxCount} :
        ReadStep("io", fd, "buf", count, maxio)

io_vbs_lseek ==
    \E fd \in IoHandles, whence \in Whences :
        \E offset \in SeekOffsets(fd) :
            /\ fd \in DOMAIN openedFiles =>
                   SeekTarget(fd, offset, whence) <= openedFiles[fd].fileSize + PastEnd
            /\ SeekStep("io", fd, offset, whence)

io_vbs_close == \E fd \in IoHandles : CloseStep("io", fd)

NextIO ==
    \/ io_vbs_open_scan
    \/ io_mk6_open_scan
    \/ io_open_insert
    \/ io_vbs_read
    \/ io_vbs_lseek
    \/ io_vbs_close

SpecIO == InitIO /\ [][NextIO]_vars

----------------------------------------------------------------------------
(* Properties of reading and seeking (SpecIO) *)

\* the chunks of a recording as the disks hold them: number, file, position
\* of the payload in the file, size of the payload
DiskChunks(org) ==
    IF org.kind = "vbs"
    THEN UNION { { [number |-> 10 * e.digits[7] + e.digits[8],
                    file   |-> VbsPath(mp, org.rec, e.digits),
                    pos    |-> 0,
                    size   |-> e.size] : e \in ScatteredDisk[org.rec][mp].entries }
                 : mp \in Range(org.mps.dirs) }
    ELSE UNION { { [number |-> Mk6Disk[org.rec][mp].blocks[i].blocknum,
                    file   |-> Mk6Path(mp, org.rec),
                    pos    |-> fh_size + wb_size
                               + BlocksLen(SubSeq(Mk6Disk[org.rec][mp].blocks, 1, i - 1)),
                    size   |-> Mk6Disk[org.rec][mp].blocks[i].wb_size - wb_size]
                   : i \in 1..Len(Mk6Disk[org.rec][mp].blocks) }
                 : mp \in { m \in Range(org.mps.dirs) : Mk6Disk[org.rec][m].exists } }

RECURSIVE ByNumber(_)
ByNumber(S) ==
    IF S = {} THEN <<>>
    ELSE LET c == CHOOSE x \in S : \A y \in S : x.number <= y.number
         IN <<c>> \o ByNumber(S \ {c})

RECURSIVE Payloads(_)
Payloads(cs) ==
    IF cs = <<>> THEN <<>>
    ELSE [j \in 1..Head(cs).size |-> <<Head(cs).file, Head(cs).pos + j - 1>>]
         \o Payloads(Tail(cs))

\* the bytes of the recording, chunk after chunk in the order of the numbers
ExpectedStream(org) == Payloads(ByNumber(DiskChunks(org)))

\* C5: offset monotonicity.  In every file of the handle table the chunks
\* stand in the order of their numbers, the first one has chunkOffset 0 and
\* each next one begins where the one before it ends, also when the numbers
\* are sparse; and the numbers, sizes and offsets are still those the file
\* was installed with, whatever reads and seeks have been made since.
OffsetMonotonicity ==
    \A h \in DOMAIN openedFiles :
        /\ openedFiles[h].fileChunks # <<>>
        /\ openedFiles[h].fileChunks[1].chunkOffset = 0
        /\ \A i \in 1..(Len(openedFiles[h].fileChunks) - 1) :
              /\ openedFiles[h].fileChunks[i].chunkNumber
                    < openedFiles[h].fileChunks[i + 1].chunkNumber
              /\ openedFiles[h].fileChunks[i + 1].chunkOffset
                    = openedFiles[h].fileChunks[i].chunkOffset
                      + openedFiles[h].fileChunks[i].chunkSize
        /\ Layout(openedFiles[h]) = origin[h].layout

\* the scattered recording with the numbers 0, 5, 12, read and then sought in
OffsetMonotonicityWitness ==
    \E h \in DOMAIN openedFiles :
        /\ origin[h].rec = "recA"
        /\ openedFiles[h].fileChunks[3].chunkNumber = 12
        /\ openedFiles[h].fileChunks[3].chunkOffset = 2
        /\ ret.op = "seek" /\ ret.rv = 1
        /\ \E fd \in DOMAIN osOpen : osOpen[fd] # Tty

ThenRead(r1, r2) == <<r1.rv, r1.bytes, r2.rv, r2.bytes>>

TwoReadsAfter(h, c2, maxio, r1) ==
    ThenRead(r1, vbs_read_fn(r1.tbl, r1.os, h, "buf", c2, maxio))

TwoReads(tbl, os, h, c1, c2, maxio) ==
    TwoReadsAfter(h, c2, maxio, vbs_read_fn(tbl, os, h, "buf", c1, maxio))

TwoReadsFrom(r, h, c1, c2, maxio) == TwoReads(r.tbl, r.os, h, c1, c2, maxio)

\* seek(h, p, SET) on the recording of h as it is just after an open
Reseek(h, p) ==
    vbs_lseek_fn([openedFiles EXCEPT ![h] = openfile_copy(openedFiles[h])],
                 osOpen, h, p, SEEK_SET)

\* C8: read/seek round trip.  After seek(h, p, SET) with 0 <= p <= size and
\* a read that returned n, the position is p + n, seek(h, 0, CUR) returns
\* p + n, and the next reads return the counts and the bytes that they
\* return after seek(h, p + n, SET) on the same recording.
RoundTrip ==
    \A h \in DOMAIN openedFiles :
        (rt[h] # <<>> /\ rt[h][1] = "read") =>
            /\ openedFiles[h].filePointer = rt[h][2] + rt[h][3]
            /\ vbs_lseek_fn(openedFiles, osOpen, h, 0, SEEK_CUR).rv = rt[h][2] + rt[h][3]
            /\ \A c1, c2 \in 1..MaxCount, maxio \in {1, MaxCount} :
                  TwoReads(openedFiles, osOpen, h, c1, c2, maxio)
                    = TwoReadsFrom(Reseek(h, rt[h][2] + rt[h][3]), h, c1, c2, maxio)

\* seek(h, 1, SET) and a read of 2 bytes, which ends in the last chunk of
\* the scattered recording, past the chunk of no bytes
RoundTripWitness ==
    \E h \in DOMAIN openedFiles :
        /\ origin[h].rec = "recA"
        /\ rt[h] = <<"read", 1, 2>>
        /\ openedFiles[h].chunkPtr = 3

\* C9: seek past the end, then read.  On a file of size S, seek(h, S + k,
\* SET) with k >= 0 returns S + k; every read after it returns 0 until the
\* next seek; and seek(h, 0, SET) followed by read(h, buf, S) returns S.
SeekPastEndThenRead ==
    \A h \in DOMAIN openedFiles :
        /\ (ret.op = "seek" /\ ret.fd = h /\ ret.a2 = SEEK_SET
               /\ ret.a1 >= openedFiles[h].fileSize) => ret.rv = ret.a1
        /\ (ret.op = "read" /\ ret.fd = h /\ phase[h] = "past") => ret.rv = 0
        /\ (ret.op = "read" /\ ret.fd = h /\ phase[h] = "readS")
               => ret.rv = openedFiles[h].fileSize

\* the chunks of h that were found in a block-header file open on
\* descriptor 0: they hold neither a descriptor nor a path
LostChunks(h) ==
    {i \in 1..Len(openedFiles[h].fileChunks) :
        /\ openedFiles[h].fileChunks[i].chunkFd = invalidFileDescriptor
        /\ openedFiles[h].fileChunks[i].pathToChunk = <<>>}

\* what C9 states holds of every file that has none of these chunks
SeekPastEndThenReadUnlessLost ==
    \A h \in DOMAIN openedFiles :
        LostChunks(h) = {} =>
            /\ (ret.op = "seek" /\ ret.fd = h /\ ret.a2 = SEEK_SET
                   /\ ret.a1 >= openedFiles[h].fileSize) => ret.rv = ret.a1
            /\ (ret.op = "read" /\ ret.fd = h /\ phase[h] = "past") => ret.rv = 0
            /\ (ret.op = "read" /\ ret.fd = h /\ phase[h] = "readS")
                   => ret.rv = openedFiles[h].fileSize

\* C10: seek on an open handle.  With a whence other than SET, CUR, END, or
\* with a new position (offset, position + offset, size + offset) below 0,
\* seek returns -1 with EINVAL and leaves the file (position, cursor, lazy
\* descriptors) and the process's descriptors as they are; otherwise it
\* returns the new position, which becomes the position of the file.
SeekContract ==
    \A h \in DOMAIN openedFiles, whence \in Whences :
        \A offset \in SeekOffsets(h) :
            IF whence \notin {SEEK_SET, SEEK_CUR, SEEK_END}
               \/ SeekTarget(h, offset, whence) < 0
            THEN /\ vbs_lseek_fn(openedFiles, osOpen, h, offset, whence)
                      = SeekResult(-1, EINVAL, openedFiles, osOpen)
            ELSE /\ vbs_lseek_fn(openedFiles, osOpen, h, offset, whence).rv
                      = SeekTarget(h, offset, whence)
                 /\ vbs_lseek_fn(openedFiles, osOpen, h, offset, whence).err = NoErr
                 /\ vbs_lseek_fn(openedFiles, osOpen, h, offset, whence).tbl[h].filePointer
                      = SeekTarget(h, offset, whence)

\* a seek to before the start has been refused, the file being in the
\* middle of a chunk whose descriptor is open
SeekContractWitness ==
    \E h \in DOMAIN openedFiles :
        /\ ret.op = "seek" /\ ret.fd = h /\ ret.a2 = SEEK_CUR
        /\ ret.rv = -1 /\ ret.err = EINVAL
        /\ openedFiles[h].filePointer = 1
        /\ OwnsFd(openedFiles[h].fileChunks[openedFiles[h].chunkPtr])

----------------------------------------------------------------------------
(* SpecErr: one caller working on one file at a time, who may pass read a  *)
(* null buffer, a count of 0 or a handle that is not open, and who may      *)
(* have used up the descriptors of the process (app_fill) when a read has   *)
(* to open a chunk; one disk has a bad sector.  Opens are made when         *)
(* descriptors are free.                                                    *)

Other == <<"other">>    \* what the application's own descriptors are open on

ErrHandles == {IntMax, IntMax - 1}
Bufs       == {"buf", NullPtr}
ErrDirs    == Dirs(<<1, 2>>)

OwnFds(os) == {n \in DOMAIN os : os[n] = Other}

InitErr == \E stdio \in {{0, 1, 2}, {1, 2}} : InitWith(stdio)

err_vbs_open_scan ==
    \E recname \in {"recA", "recB"} :
        /\ OwnFds(osOpen) = {}
        /\ OpenScanStep("io", 1, vbs_open_scan_fn(osOpen, recname, ErrDirs),
                        Org("vbs", recname, ErrDirs))

err_mk6_open_scan ==
    \E order \in Orders(Range(ErrDirs.dirs)) :
        /\ OwnFds(osOpen) = {}
        /\ OpenScanStep("io", 1, mk6_open_scan_fn(osOpen, "recD", ErrDirs, order),
                        Org("mk6", "recD", ErrDirs))

err_open_insert == OpenInsertStep("io", 1)

err_vbs_read ==
    \E fd \in ErrHandles, buf \in Bufs, count \in 0..MaxCount, maxio \in {1, MaxCount} :
        ReadStep("io", fd, buf, count, maxio)

err_vbs_lseek ==
    \E fd \in ErrHandles :
        \E offset \in SeekOffsets(fd) :
            /\ 0 <= offset
            /\ SeekStep("io", fd, offset, SEEK_SET)

err_vbs_close == \E fd \in ErrHandles : CloseStep("io", fd)

\* the application opens descriptors of its own until the process has FdLimit
app_fill ==
    /\ DOMAIN openedFiles # {}
    /\ \E n \in 0..(FdLimit - 1) : n \notin DOMAIN osOpen
    /\ osOpen' = [n \in DOMAIN osOpen \cup 0..(FdLimit - 1) |->
                     IF n \in DOMAIN osOpen THEN osOpen[n] ELSE Other]
    /\ ret' = Event("fill", 0, 0, 0, 0, NoErr)
    /\ UNCHANGED <<openedFiles, pend, tableGhosts, ioGhosts>>

\* and closes them again
app_release ==
    /\ OwnFds(osOpen) # {}
    /\ osOpen' = [n \in DOMAIN osOpen \ OwnFds(osOpen) |-> osOpen[n]]
    /\ ret' = Event("release", 0, 0, 0, 0, NoErr)
    /\ UNCHANGED <<openedFiles, pend, tableGhosts, ioGhosts>>

NextErr ==
    \/ err_vbs_open_scan
    \/ err_mk6_open_scan
    \/ err_open_insert
    \/ err_vbs_read
    \/ err_vbs_lseek
    \/ err_vbs_close
    \/ app_fill
    \/ app_release

SpecErr == InitErr /\ [][NextErr]_vars

----------------------------------------------------------------------------
(* Properties of read under bad arguments and OS failures (SpecErr) *)

\* the call returns rv and err, with nothing written and nothing changed
Refused(r, rv, err) == r = ReadResult(rv, err, openedFiles, osOpen, <<>>, FALSE, FALSE)

\* what read(fd, buf, count) has to come to (r), check by check
ReadChecked(fd, buf, count, r) ==
    IF fd \notin DOMAIN openedFiles THEN Refused(r, -1, EBADF)
    ELSE IF buf = NullPtr THEN Refused(r, -1, EFAULT)
    ELSE IF count = 0 THEN Refused(r, 0, NoErr)
    ELSE (openedFiles[fd].chunkPtr = Len(openedFiles[fd].fileChunks) + 1)
            => Refused(r, 0, NoErr)

\* C11: read validates its arguments in this order, changing no state when
\* a check fires: a handle that is not in the table gives -1/EBADF, also
\* with a null buffer or a count of 0; a known handle with a null buffer
\* gives -1/EFAULT, also with a count of 0; a known handle, a buffer and a
\* count of 0 give 0; a cursor at the end sentinel gives 0.  This holds of
\* the read that has just returned and of every read that could be made.
ReadValidation ==
    /\ \A fd \in ErrHandles, buf \in Bufs, count \in 0..MaxCount, maxio \in {1, MaxCount} :
          ReadChecked(fd, buf, count,
                      vbs_read_fn(openedFiles, osOpen, fd, buf, count, maxio))
    /\ (ret.op = "read" /\ ret.fd \notin DOMAIN openedFiles)
          => (ret.rv = -1 /\ ret.err = EBADF)
    /\ (ret.op = "read" /\ ret.fd \in DOMAIN openedFiles /\ ret.a1 = NullPtr)
          => (ret.rv = -1 /\ ret.err = EFAULT)
    /\ (ret.op = "read" /\ ret.fd \in DOMAIN openedFiles /\ ret.a1 # NullPtr /\ ret.a2 = 0)
          => (ret.rv = 0 /\ ret.err = NoErr)

\* read(h, NULL, 0) has been refused with EFAULT, h being open with its
\* cursor at the end sentinel
ReadValidationWitness ==
    /\ ret.op = "read" /\ ret.a1 = NullPtr /\ ret.a2 = 0 /\ ret.err = EFAULT
    /\ ret.fd \in DOMAIN openedFiles
    /\ openedFiles[ret.fd].chunkPtr = Len(openedFiles[ret.fd].fileChunks) + 1
    /\ openedFiles[ret.fd].filePointer = openedFiles[ret.fd].fileSize

\* the chunk that the cursor of f designates holds the position of f
CursorAtPosition(f) ==
    /\ f.chunkPtr <= Len(f.fileChunks)
    /\ f.fileChunks[f.chunkPtr].chunkOffset <= f.filePointer
    /\ f.filePointer < f.fileChunks[f.chunkPtr].chunkOffset
                         + f.fileChunks[f.chunkPtr].chunkSize

\* r is read(h, buf, count) cut short by a failure of ::open or ::read, and
\* again is the same read made once more
ShortRead(h, count, r, again) ==
    r.oserr =>
        /\ 0 <= r.rv /\ r.rv < count
        /\ r.err = NoErr
        /\ Len(r.bytes) = r.rv
        /\ r.tbl[h].filePointer = openedFiles[h].filePointer + r.rv
        /\ CursorAtPosition(r.tbl[h])
        /\ Layout(r.tbl[h]) = Layout(openedFiles[h])
        /\ again.oserr /\ again.rv = 0
        /\ again.tbl[h].filePointer = r.tbl[h].filePointer
        /\ again.tbl[h].chunkPtr = r.tbl[h].chunkPtr

ShortReadOf(h, count, maxio, r) ==
    ShortRead(h, count, r, vbs_read_fn(r.tbl, r.os, h, "buf", count, maxio))

\* C12: an I/O error during read gives a short read.  If the chunk cannot
\* be opened or ::read fails after k bytes of this call (0 <= k < count),
\* read returns k, the position has advanced by k and the cursor is on the
\* chunk that holds it, the failing one, so that the next read starts at
\* the same place (and fails there again while the failure lasts).
ShortReadOnError ==
    \A h \in DOMAIN openedFiles, count \in 1..MaxCount, maxio \in {1, MaxCount} :
        ShortReadOf(h, count, maxio,
                    vbs_read_fn(openedFiles, osOpen, h, "buf", count, maxio))

\* a read of 3 bytes has returned 2, stopped by the bad sector in the
\* second chunk, and a read of the first chunk has before that been
\* stopped by the lack of descriptors
ShortReadWitness ==
    \E h \in DOMAIN openedFiles :
        /\ origin[h].rec = "recB"
        /\ ret.op = "read" /\ ret.fd = h /\ ret.a2 = 3 /\ ret.rv = 2
        /\ openedFiles[h].filePointer = 2 /\ openedFiles[h].chunkPtr = 2
        /\ ~stream[h].ok

----------------------------------------------------------------------------
(* SpecScan: one caller working on one file at a time, who asks for         *)
(* recordings that are whole, duplicated over mountpoints, corrupt, stale   *)
(* or absent, with a null or empty name, a null or empty mountpoint list,   *)
(* in a process started with descriptor 0 open or closed.                   *)

ScanVbsNames == {"recA", "recC", "recN", "", NullPtr}
ScanMk6Names == {"recD", "recG", "recH", "recK", "recL", "recM", "recV", "recS", "recT",
                 "recU", "recW", "recX", "recY", "recN", "", NullPtr}
ScanDirs     == {Dirs(<<1, 2>>), Dirs(<<2>>), Dirs(<<>>), NullDirs}
ScanHandles  == {IntMax}

InitScan == \E stdio \in {{0, 1, 2}, {1, 2}} : InitWith(stdio)

\* the descriptors that are open on files of recordings
DiskFds(os) == {n \in DOMAIN os : os[n] # Tty}

\* the caller goes on opening recordings while few descriptors are left open
MayOpen == openedFiles = <<>> => Cardinality(DiskFds(osOpen)) <= MaxLeaked

scan_vbs_open ==
    \E recname \in ScanVbsNames, rootdirs \in ScanDirs :
        /\ MayOpen
        /\ OpenScanStep("scan", 1, vbs_open_scan_fn(osOpen, recname, rootdirs),
                        OrgAt("vbs", recname, rootdirs, osOpen))

scan_mk6_open ==
    \E recname \in ScanMk6Names, rootdirs \in ScanDirs :
        \E order \in Orders(Range(rootdirs.dirs)) :
            /\ MayOpen
            /\ OpenScanStep("scan", 1, mk6_open_scan_fn(osOpen, recname, rootdirs, order),
                            OrgAt("mk6", recname, rootdirs, osOpen))

scan_open_insert == OpenInsertStep("scan", 1)

scan_vbs_read ==
    \E fd \in ScanHandles, count \in 1..2 : ReadStep("scan", fd, "buf", count, MaxCount)

scan_vbs_close == \E fd \in ScanHandles : CloseStep("scan", fd)

scan_exit == ExitStep

NextScan ==
    \/ scan_vbs_open
    \/ scan_mk6_open
    \/ scan_open_insert
    \/ scan_vbs_read
    \/ scan_vbs_close
    \/ scan_exit

SpecScan == InitScan /\ [][NextScan]_vars

----------------------------------------------------------------------------
(* Properties of discovery and of the descriptors it opens (SpecScan) *)

\* the file of rec on mp passes the checks of its header
ValidMk6(rec, mp) ==
    /\ rec \in DOMAIN Mk6Disk
    /\ Mk6Disk[rec][mp].exists
    /\ Mk6Disk[rec][mp].size >= fh_size
    /\ Mk6Disk[rec][mp].sync_word = MARK6_SG_SYNC_WORD
    /\ Mk6Disk[rec][mp].version = 2

\* the numbers of the pieces that the disks hold of rec on mp
ScatteredNumbers(rec, mp) ==
    IF rec \in DOMAIN ScatteredDisk /\ ScatteredDisk[rec][mp].exists
    THEN {Strtoul10(e.digits) : e \in ScatteredDisk[rec][mp].entries}
    ELSE {}

Mk6Numbers(rec, mp) ==
    IF ValidMk6(rec, mp)
    THEN {Mk6Disk[rec][mp].blocks[i].blocknum : i \in DOMAIN Mk6Disk[rec][mp].blocks}
    ELSE {}

\* a write-block header of a file of rec is bogus or repeats a block number
\* of the same file
Mk6Corrupt(rec, mps) ==
    \E mp \in Range(mps.dirs) :
        /\ ValidMk6(rec, mp)
        /\ \E i \in DOMAIN Mk6Disk[rec][mp].blocks :
              \/ Mk6Disk[rec][mp].blocks[i].blocknum < 0
              \/ Mk6Disk[rec][mp].blocks[i].wb_size <= 0
              \/ \E j \in 1..(i - 1) :
                    Mk6Disk[rec][mp].blocks[j].blocknum = Mk6Disk[rec][mp].blocks[i].blocknum

\* two mountpoints hold a piece of the same number
ScatteredDuplicate(rec, mps) ==
    \E m1, m2 \in Range(mps.dirs) :
        m1 # m2 /\ ScatteredNumbers(rec, m1) \cap ScatteredNumbers(rec, m2) # {}

Mk6Duplicate(rec, mps) ==
    \E m1, m2 \in Range(mps.dirs) :
        m1 # m2 /\ Mk6Numbers(rec, m1) \cap Mk6Numbers(rec, m2) # {}

\* C13: no descriptor leak.  After close(h) has returned success every OS
\* descriptor that was opened on behalf of h is closed: the descriptors of
\* the scattered chunks that reads opened, and the descriptor of every
\* block-header file that passed the header checks, chunks of it being in
\* the chunk set or not.  So the process has after close(h) no descriptor
\* that it did not have when the open that returned h was called (no other
\* open call opens a descriptor while h is open, unless it ends the process).
NoDescriptorLeak ==
    \A h \in DOMAIN openedFiles :
        Running =>
        DOMAIN vbs_close_fn(openedFiles, osOpen, h).os \subseteq origin[h].fds

\* close(h) has returned 0, the table is empty, and a file of recH is open
DescriptorLeakWitness ==
    /\ ret.op = "close" /\ ret.rv = 0 /\ openedFiles = <<>>
    /\ \E n \in DOMAIN osOpen : osOpen[n] \in {Mk6Path(1, "recH"), Mk6Path(2, "recH")}

\* what does hold: a descriptor that close(h) leaves behind is open on a
\* block-header file of which no chunk is in the chunk set of h
LeakedAreUnreferenced ==
    \A h \in DOMAIN openedFiles :
        Running =>
        \A n \in DOMAIN vbs_close_fn(openedFiles, osOpen, h).os \ origin[h].fds :
            /\ osOpen[n] \in {Mk6Path(mp, origin[h].rec) : mp \in Range(origin[h].mps.dirs)}
            /\ \A i \in DOMAIN openedFiles[h].fileChunks :
                  openedFiles[h].fileChunks[i].chunkFd # -n

\* C14: a block-header descriptor of a virtual file is closed exactly once,
\* by close(h) and never by a chunk, whatever descriptor the OS returned
\* (0 included).  So while h is open every block-header file of it that
\* passed the header checks is open, and close(h) closes the descriptors
\* that the chunks of h refer to.
SharedDescriptorsOpen ==
    \A h \in DOMAIN openedFiles :
        origin[h].kind = "mk6" =>
            /\ \A mp \in Range(origin[h].mps.dirs) :
                  ValidMk6(origin[h].rec, mp) =>
                      \E n \in DOMAIN osOpen : osOpen[n] = Mk6Path(mp, origin[h].rec)
            /\ \A i \in DOMAIN openedFiles[h].fileChunks :
                  /\ openedFiles[h].fileChunks[i].chunkFd < 0
                  /\ -openedFiles[h].fileChunks[i].chunkFd
                        \notin DOMAIN vbs_close_fn(openedFiles, osOpen, h).os

\* what does hold: the same of a file opened by a process that had
\* descriptor 0 open
SharedDescriptorsOpenUnlessZero ==
    \A h \in DOMAIN openedFiles :
        (origin[h].kind = "mk6" /\ 0 \in origin[h].fds) =>
            /\ \A mp \in Range(origin[h].mps.dirs) :
                  ValidMk6(origin[h].rec, mp) =>
                      \E n \in DOMAIN osOpen : osOpen[n] = Mk6Path(mp, origin[h].rec)
            /\ \A i \in DOMAIN openedFiles[h].fileChunks :
                  /\ openedFiles[h].fileChunks[i].chunkFd < 0
                  /\ -openedFiles[h].fileChunks[i].chunkFd
                        \notin DOMAIN vbs_close_fn(openedFiles, osOpen, h).os

\* the open call that has returned was asked for a recording of kind
OpenOf(kind) == ret.op = "open" /\ ret.a1[1] = kind

\* a null or empty name, or a null list of mountpoints
NullOrEmpty(recname, rootdirs) == recname \in {NullPtr, ""} \/ rootdirs = NullDirs

\* the step is the return of an open call with one of errs (the scan of an
\* open call that goes on to its insert changes pend and leaves ret alone)
OpenFailsWith(errs) == ret'.op = "open" /\ ret'.err \in errs /\ pend' = pend

DuplicateScatteredHere ==
    /\ \A recname \in ScanVbsNames, rootdirs \in ScanDirs :
          ScatteredDuplicate(recname, rootdirs) =>
              vbs_open_scan_fn(osOpen, recname, rootdirs)
                 = ScanResult(TRUE, -1, "vbs_except", osOpen, <<>>)
    /\ (OpenOf("vbs") /\ ScatteredDuplicate(ret.a1[2], ret.a2))
          => (ret.rv = -1 /\ ret.err = "vbs_except")

\* C15: scattered discovery fails on a duplicate.  When two chunk files of
\* the recording carry the same 8-digit number (a directory cannot hold a
\* name twice, so they are on two mountpoints) open fails with the
\* duplicate-chunk exception, returns no handle, and the handle table and
\* the descriptors of the process are what they were.
DuplicateScattered ==
    /\ []DuplicateScatteredHere
    /\ [][OpenFailsWith({"vbs_except"})
            => (ret'.rv = -1 /\ openedFiles' = openedFiles /\ osOpen' = osOpen)]_vars

\* open of recC has failed on the duplicate while a file was open
DuplicateScatteredWitness ==
    /\ OpenOf("vbs") /\ ret.a1[2] = "recC" /\ ret.a2 = Dirs(<<1, 2>>)
    /\ ret.rv = -1 /\ ret.err = "vbs_except"
    /\ DOMAIN openedFiles = {IntMax}

\* the numbers of the chunks of the open file h
ChunkNumbers(h) ==
    [i \in DOMAIN openedFiles[h].fileChunks |-> openedFiles[h].fileChunks[i].chunkNumber]

\* the block numbers that the files of the recording of h hold
DiskNumbers(h) ==
    UNION {Mk6Numbers(origin[h].rec, mp) : mp \in Range(origin[h].mps.dirs)}

\* C16: block-header discovery tolerates duplicates across mountpoints.
\* When two mountpoint files hold a block of the same number the scan goes
\* on, open succeeds, and the chunk set holds one chunk of that number and
\* every other block of every mountpoint file.
TolerantMerge ==
    /\ \A recname \in ScanMk6Names, rootdirs \in ScanDirs :
          (Mk6Duplicate(recname, rootdirs) /\ ~Mk6Corrupt(recname, rootdirs)) =>
              \A order \in Orders(Range(rootdirs.dirs)) :
                  ~mk6_open_scan_fn(osOpen, recname, rootdirs, order).done
    /\ \A h \in DOMAIN openedFiles :
          (origin[h].kind = "mk6" /\ Mk6Duplicate(origin[h].rec, origin[h].mps))
              => ChunkNumbers(h) = SetToSortedSeq(DiskNumbers(h))

\* what does hold: the same of a file opened by a process that had
\* descriptor 0 open
TolerantMergeUnlessZero ==
    \A h \in DOMAIN openedFiles :
        (origin[h].kind = "mk6" /\ Mk6Duplicate(origin[h].rec, origin[h].mps)
           /\ 0 \in origin[h].fds)
            => ChunkNumbers(h) = SetToSortedSeq(DiskNumbers(h))

\* C17: a corrupt block header fails the open.  When a write-block header
\* has a negative block number or a size that is not positive, or repeats a
\* block number of its file, the open call fails with a typed failure that
\* its caller receives, the descriptor of the file is closed, no handle is
\* returned and the table is what it was.
CorruptHeaderFailsOpen ==
    (OpenOf("mk6") /\ ~NullOrEmpty(ret.a1[2], ret.a2) /\ Mk6Corrupt(ret.a1[2], ret.a2))
        => /\ ret.rv = -1
           /\ ret.err = "vbs_except"
           /\ Running

OpenRefusedHere ==
    /\ \A recname \in ScanVbsNames, rootdirs \in ScanDirs :
          IF NullOrEmpty(recname, rootdirs)
          THEN vbs_open_scan_fn(osOpen, recname, rootdirs)
                  = ScanResult(TRUE, -1, EINVAL, osOpen, <<>>)
          ELSE (\A mp \in Range(rootdirs.dirs) : ScatteredNumbers(recname, mp) = {})
                  => vbs_open_scan_fn(osOpen, recname, rootdirs)
                        = ScanResult(TRUE, -1, ENOENT, osOpen, <<>>)
    /\ \A recname \in ScanMk6Names, rootdirs \in ScanDirs :
          \A order \in Orders(Range(rootdirs.dirs)) :
              IF NullOrEmpty(recname, rootdirs)
              THEN mk6_open_scan_fn(osOpen, recname, rootdirs, order)
                      = ScanResult(TRUE, -1, EINVAL, osOpen, <<>>)
              ELSE (\A mp \in Range(rootdirs.dirs) : Mk6Numbers(recname, mp) = {})
                      => mk6_open_scan_fn(osOpen, recname, rootdirs, order)
                            = ScanResult(TRUE, -1, ENOENT, osOpen, <<>>)
    /\ (ret.op = "open" /\ NullOrEmpty(ret.a1[2], ret.a2))
          => (ret.rv = -1 /\ ret.err = EINVAL)

\* C18: an empty discovery is refused.  When the chunk set is empty after
\* discovery (no mountpoint holds a piece of the recording, or the list of
\* mountpoints has no entries) open returns -1 with ENOENT; a null or empty
\* name or a null mountpoint list gives -1 with EINVAL before any scan; in
\* both cases no handle is returned and the handle table is what it was.
OpenRefused ==
    /\ []OpenRefusedHere
    /\ [][OpenFailsWith({EINVAL, ENOENT})
            => (ret'.rv = -1 /\ openedFiles' = openedFiles)]_vars

\* an open with an empty list of mountpoints has been refused with ENOENT
\* while a file was open
OpenRefusedWitness ==
    /\ ret.op = "open" /\ ret.a1[2] = "recD" /\ ret.a2 = Dirs(<<>>)
    /\ ret.rv = -1 /\ ret.err = ENOENT
    /\ DOMAIN openedFiles = {IntMax}

----------------------------------------------------------------------------
(* SpecJoin: the Mark6 scan thread by thread.  One caller opens and closes  *)
(* Mark6 recordings; scanMk6Recording starts one worker per mountpoint,     *)
(* which may fail, and joins those it started; the workers run in any       *)
(* interleaving.  pend[1] is the frame of scanMk6Recording:                 *)
(*   pc       "create", "join", "returned" (back in mk6_open)               *)
(*   todo     the mountpoints whose worker is still to be started           *)
(*   threads  the mountpoints of the started workers, in starting order     *)
(*   joined   how many of them have been joined                             *)
(*   w        per started worker: its pc ("run", "scanned", "exit") and lcl *)
(*   fcs      the chunk set that the workers share                          *)

JoinNames == {"recD", "recE", "recG"}
JoinDirs  == Dirs(<<1, 2>>)

Worker(pc, lcl) == [pc |-> pc, lcl |-> lcl]

\* mk6_open has called scanMk6Recording
ScanFrame(org) ==
    [op |-> "scan", org |-> org, pc |-> "create",
     todo |-> SetToSortedSeq(Range(org.mps.dirs)), threads |-> <<>>, joined |-> 0,
     w |-> <<>>, fcs |-> <<>>]

InScan(pc) == pend[1].op = "scan" /\ pend[1].pc = pc

\* mp_pthread_create has started the worker of the next mountpoint
CreateDone(sc) ==
    [sc EXCEPT !.todo = Tail(sc.todo),
               !.threads = Append(sc.threads, Head(sc.todo)),
               !.w = [mp \in DOMAIN sc.w \cup {Head(sc.todo)} |->
                         IF mp = Head(sc.todo) THEN Worker("run", <<>>) ELSE sc.w[mp]],
               !.pc = IF Tail(sc.todo) = <<>> THEN "join" ELSE "create"]

\* CreateFails going back to mk6_open at once
CreateFailsReturns(sc) == [sc EXCEPT !.pc = "returned"]

\* mp_pthread_create has failed: break, on to the joins
CreateFails(sc) == [sc EXCEPT !.pc = "join"]

\* the steps of the scan leave the table and the caller's view alone
ScanStep(sc, os1) ==
    /\ Running
    /\ pend' = [pend EXCEPT ![1] = sc]
    /\ osOpen' = os1
    /\ UNCHANGED <<openedFiles, ret, tableGhosts, ioGhosts>>

join_mk6_open ==
    \E recname \in JoinNames :
        /\ pend[1] = Idle
        /\ openedFiles = <<>>
        /\ DiskFds(osOpen) = {}
        /\ ScanStep(ScanFrame(Org("mk6", recname, JoinDirs)), osOpen)

join_create ==
    /\ InScan("create")
    /\ \/ ScanStep(CreateDone(pend[1]), osOpen)
       \/ ScanStep(CreateFails(pend[1]), osOpen)

\* the worker of mp has scanned its file (s)
WorkerScanned(mp, s) ==
    IF s.throw
    THEN /\ Returned("io", OpenEvent("io", pend[1].org, -1, Terminated),
                     openedFiles, s.os, Bytes(<<>>), pend[1].org)
         /\ UNCHANGED pend
    ELSE ScanStep([pend[1] EXCEPT !.w[mp] = Worker("scanned", s.rv)], s.os)

\* lstat, and scanMk6RecordingFile into lcl
join_worker_scan ==
    \E mp \in {1, 2} :
        /\ pend[1].op = "scan"
        /\ mp \in DOMAIN pend[1].w
        /\ pend[1].w[mp].pc = "run"
        /\ IF ~Mk6Disk[pend[1].org.rec][mp].exists
           THEN ScanStep([pend[1] EXCEPT !.w[mp] = Worker("exit", <<>>)], osOpen)
           ELSE WorkerScanned(mp, scanMk6RecordingFile(osOpen, pend[1].org.rec, mp))

\* the workers that are between pthread_mutex_lock and pthread_mutex_unlock
Holders(sc) == {mp \in DOMAIN sc.w : sc.w[mp].pc \in {"locked", "merged"}}

\* a mutex that lets everybody in
MutexFreeAlways(sc) == TRUE

\* pthread_mutex_lock(sm6mp->mtx) returns when no other worker holds mtx
MutexFree(sc) == Holders(sc) = {}

\* ::pthread_mutex_lock(sm6mp->mtx)
join_worker_lock ==
    \E mp \in {1, 2} :
        /\ pend[1].op = "scan"
        /\ mp \in DOMAIN pend[1].w
        /\ pend[1].w[mp].pc = "scanned"
        /\ MutexFree(pend[1])
        /\ ScanStep([pend[1] EXCEPT !.w[mp].pc = "locked"], osOpen)

\* under the mutex: lcl into the shared set
join_worker_merge ==
    \E mp \in {1, 2} :
        /\ pend[1].op = "scan"
        /\ mp \in DOMAIN pend[1].w
        /\ pend[1].w[mp].pc = "locked"
        /\ ScanStep([pend[1] EXCEPT !.fcs = Mk6Merge(pend[1].fcs, pend[1].w[mp].lcl),
                                    !.w[mp].pc = "merged"],
                    osOpen)

\* ::pthread_mutex_unlock(sm6mp->mtx); then the worker returns and lcl ends
join_worker_unlock ==
    \E mp \in {1, 2} :
        /\ pend[1].op = "scan"
        /\ mp \in DOMAIN pend[1].w
        /\ pend[1].w[mp].pc = "merged"
        /\ ScanStep([pend[1] EXCEPT !.w[mp] = Worker("exit", <<>>)],
                    DestroyChunks(osOpen, pend[1].w[mp].lcl))

\* pthread_join of the next started worker returns when it has ended
join_pthread_join ==
    /\ InScan("join")
    /\ pend[1].joined < Len(pend[1].threads)
    /\ pend[1].w[pend[1].threads[pend[1].joined + 1]].pc = "exit"
    /\ ScanStep([pend[1] EXCEPT !.joined = pend[1].joined + 1], osOpen)

\* every started worker is joined: back to mk6_open
join_scan_return ==
    /\ InScan("join")
    /\ pend[1].joined = Len(pend[1].threads)
    /\ ScanStep([pend[1] EXCEPT !.pc = "returned"], osOpen)

\* mk6_open after the scan: ENOENT, or the insert under the write lock
join_open_insert ==
    /\ InScan("returned")
    /\ pend' = [pend EXCEPT ![1] = Idle]
    /\ IF pend[1].fcs = <<>>
       THEN Returned("io", OpenEvent("io", pend[1].org, -1, ENOENT),
                     openedFiles, osOpen, Bytes(<<>>), pend[1].org)
       ELSE LET r == open_insert_fn(openedFiles, osOpen, pend[1].fcs)
            IN Returned("io", OpenEvent("io", pend[1].org, r.rv, NoErr),
                        r.tbl, r.os, Bytes(<<>>), pend[1].org)

join_vbs_close ==
    /\ pend[1] = Idle
    /\ CloseStep("io", IntMax)

NextJoin ==
    \/ join_mk6_open
    \/ join_create
    \/ join_worker_scan
    \/ join_worker_lock
    \/ join_worker_merge
    \/ join_worker_unlock
    \/ join_pthread_join
    \/ join_scan_return
    \/ join_open_insert
    \/ join_vbs_close

InitJoin == \E stdio \in {{0, 1, 2}, {1, 2}} : InitWith(stdio)

SpecJoin == InitJoin /\ [][NextJoin]_vars

\* C19: the workers are all joined before open returns.  When the Mark6
\* scan returns to mk6_open every worker that was started has ended, also
\* when the start of a worker had failed, and from then on the chunk set
\* that the workers shared is changed by nobody.
WorkersJoined ==
    /\ [](InScan("returned") =>
            \A mp \in DOMAIN pend[1].w : pend[1].w[mp].pc = "exit")
    /\ [][(InScan("returned") /\ pend'[1].op = "scan")
            => pend'[1].fcs = pend[1].fcs]_vars

\* the scan has returned after the second worker could not be started; the
\* first had been started and joined and has left its chunks
WorkersJoinedWitness ==
    /\ InScan("returned")
    /\ pend[1].todo = <<2>>
    /\ pend[1].threads = <<1>> /\ pend[1].joined = 1
    /\ pend[1].w[1].pc = "exit"
    /\ pend[1].fcs # <<>>

----------------------------------------------------------------------------
(* SpecSync: the calls of two threads with openedFilesLock.  A call that    *)
(* takes the lock is two steps: the construction of its locker, which       *)
(* waits for the lock, and the rest of the call up to its return, where     *)
(* the locker is destroyed; in between pend[t] is the call in progress.     *)
(* The threads do not work on the same handle at the same time.             *)

SyncHandles == {IntMax, IntMax - 1}
SyncDirs    == Dirs(<<1, 2>>)

\* LockOf with every call taking the lock for reading
LockOfAllRead(op) == "rd"

\* the locker that a call constructs: rw_read_locker or rw_write_locker
LockOf(op) == IF op \in {"read", "seek"} THEN "rd" ELSE "wr"

\* the threads that hold openedFilesLock for reading ("rd"), for writing ("wr")
Holding(kind) ==
    {t \in Threads : pend[t].op \in {"read", "seek", "close", "insert"}
                     /\ LockOf(pend[t].op) = kind}

\* pthread_rwlock: a reader waits for the writer, a writer for everybody
CanLock(kind) ==
    IF kind = "rd" THEN Holding("wr") = {}
    ELSE Holding("wr") = {} /\ Holding("rd") = {}

\* thread t constructs the locker of the call op(fd)
LockStep(t, op, fd) ==
    /\ Running
    /\ pend[t] = Idle
    /\ CanLock(LockOf(op))
    /\ \A u \in Threads \ {t} : pend[u].op \in {"read", "seek"} => pend[u].fd # fd
    /\ pend' = [pend EXCEPT ![t] = [op |-> op, fd |-> fd]]
    /\ UNCHANGED <<openedFiles, osOpen, ret, tableGhosts, ioGhosts>>

\* the call in progress of thread t returns r
UnlockStep(t, a1, a2, r) ==
    /\ pend' = [pend EXCEPT ![t] = Idle]
    /\ Returned("sync", Event(pend[t].op, pend[t].fd, a1, a2, r.rv, r.err), r.tbl, r.os,
                Bytes(<<>>), Org("", "", <<>>))

sync_lock ==
    \E t \in Threads, op \in {"read", "seek", "close"}, fd \in SyncHandles :
        LockStep(t, op, fd)

sync_vbs_read ==
    \E t \in Threads :
        /\ pend[t].op = "read"
        /\ UnlockStep(t, "buf", 1, vbs_read_fn(openedFiles, osOpen, pend[t].fd, "buf", 1, 1))

sync_vbs_lseek ==
    \E t \in Threads :
        /\ pend[t].op = "seek"
        /\ UnlockStep(t, 0, SEEK_SET, vbs_lseek_fn(openedFiles, osOpen, pend[t].fd, 0, SEEK_SET))

sync_vbs_close ==
    \E t \in Threads :
        /\ pend[t].op = "close"
        /\ UnlockStep(t, 0, 0, vbs_close_fn(openedFiles, osOpen, pend[t].fd))

sync_open_scan ==
    \E t \in Threads :
        \/ OpenScanStep("sync", t, vbs_open_scan_fn(osOpen, "recF", SyncDirs),
                        Org("vbs", "recF", SyncDirs))
        \/ OpenScanStep("sync", t, mk6_open_scan_fn(osOpen, "recE", SyncDirs, <<1, 2>>),
                        Org("mk6", "recE", SyncDirs))

\* vbs_open/mk6_open construct their locker after the scan
sync_open_lock ==
    \E t \in Threads :
        /\ pend[t].op = "open"
        /\ CanLock(LockOf("insert"))
        /\ pend' = [pend EXCEPT ![t].op = "insert"]
        /\ UNCHANGED <<openedFiles, osOpen, ret, tableGhosts, ioGhosts>>

sync_open_insert ==
    \E t \in Threads :
        /\ pend[t].op = "insert"
        /\ OpenInserted("sync", t, open_insert_fn(openedFiles, osOpen, pend[t].chunks))

NextSync ==
    \/ sync_lock
    \/ sync_vbs_read
    \/ sync_vbs_lseek
    \/ sync_vbs_close
    \/ sync_open_scan
    \/ sync_open_lock
    \/ sync_open_insert

SpecSync == Init /\ [][NextSync]_vars

\* the threads with a read or seek in progress, with an insert or close
Reading == {t \in Threads : pend[t].op \in {"read", "seek"}}
Writing == {t \in Threads : pend[t].op \in {"insert", "close"}}

\* C20: the readers-writer lock discipline.  open and close insert into and
\* erase from the handle table only while they hold the lock for writing,
\* alone; read and seek hold it for reading from their start to their
\* return.  So no read or seek is in progress when an entry is inserted or
\* a virtual file destroyed, and a call that is inserting or closing is the
\* only call in progress on the table; reads and seeks of different
\* handles are in progress at the same time.
LockDiscipline ==
    /\ [](Writing # {} => (Reading = {} /\ Cardinality(Writing) = 1))
    /\ [][DOMAIN openedFiles' # DOMAIN openedFiles
            => (Reading = {} /\ Cardinality(Writing) = 1)]_vars
    /\ [][\A h \in DOMAIN openedFiles \cap DOMAIN openedFiles' :
             openedFiles'[h] # openedFiles[h]
                => (\E t \in Reading : pend[t].fd = h /\ pend'[t] = Idle)]_vars

\* a read and a seek of two open files are in progress at the same time
LockDisciplineWitness ==
    /\ pend[1].op = "read" /\ pend[2].op = "seek"
    /\ pend[1].fd # pend[2].fd
    /\ {pend[1].fd, pend[2].fd} \subseteq DOMAIN openedFiles

----------------------------------------------------------------------------
(* Teardown: the static cleanup object *)

\* C21: at teardown the handle table is emptied and every descriptor that a
\* still-open virtual file owns is released: the lazily opened descriptors
\* of its scattered chunks and the descriptors of its block-header files.
\* Here: in every state, what ~cleanup_type() would leave behind holds no
\* descriptor that a chunk of an open file refers to.
TeardownReleasesAll ==
    Running =>
    /\ cleanup_dtor(openedFiles, osOpen).tbl = <<>>
    /\ \A h \in DOMAIN openedFiles :
          \A i \in DOMAIN openedFiles[h].fileChunks :
              LET c == openedFiles[h].fileChunks[i]
              IN /\ OwnsFd(c) =>
                      c.chunkFd \notin DOMAIN cleanup_dtor(openedFiles, osOpen).os
                 /\ c.chunkFd < 0 =>
                      -c.chunkFd \notin DOMAIN cleanup_dtor(openedFiles, osOpen).os

\* main() has returned while a Mark6 recording was open, and a block-header
\* file of that recording is still open
TeardownLeakWitness ==
    /\ ret.op = "exit" /\ openedFiles = <<>>
    /\ \E h \in DOMAIN origin :
          /\ origin[h].kind = "mk6"
          /\ \E n \in DOMAIN osOpen \ origin[h].fds :
                osOpen[n] \in {Mk6Path(mp, origin[h].rec) :
                                  mp \in Range(origin[h].mps.dirs)}

\* what does hold: the table is emptied and the lazily opened descriptors of
\* the scattered chunks are closed
TeardownClosesScattered ==
    Running =>
    /\ cleanup_dtor(openedFiles, osOpen).tbl = <<>>
    /\ \A h \in DOMAIN openedFiles :
          \A i \in DOMAIN openedFiles[h].fileChunks :
              OwnsFd(openedFiles[h].fileChunks[i]) =>
                  openedFiles[h].fileChunks[i].chunkFd
                      \notin DOMAIN cleanup_dtor(openedFiles, osOpen).os

\* a scattered chunk of an open file has its descriptor open, and main()
\* may return
ScatteredOpenAtExit ==
    /\ Running
    /\ \A t \in Threads : pend[t] = Idle
    /\ \E h \in DOMAIN openedFiles :
          \E i \in DOMAIN openedFiles[h].fileChunks :
              OwnsFd(openedFiles[h].fileChunks[i])

----------------------------------------------------------------------------
(* escape: strings are sequences of characters *)

MaxLen == 3

\* static const string alphanum_str(...), the trailing second "0" included
alphanum_str ==
    <<"_", "a", "b", "c", "d", "e", "f", "g", "h", "i", "j", "k", "l", "m",
      "n", "o", "p", "q", "r", "s", "t", "u", "v", "w", "x", "y", "z",
      "A", "B", "C", "D", "E", "F", "G", "H", "I", "J", "K", "L", "M",
      "N", "O", "P", "Q", "R", "S", "T", "U", "V", "W", "X", "Y", "Z",
      "0", "1", "2", "3", "4", "5", "6", "7", "8", "9", "0">>

\* alphanum_str.find(c)==string::npos
NotFound(c) == \A i \in DOMAIN alphanum_str : alphanum_str[i] # c

RECURSIVE escapeAfter(_)
\* escape writing the backslash behind the character
escapeAfter(s) ==
    IF s = <<>> THEN <<>>
    ELSE <<Head(s)>> \o (IF NotFound(Head(s)) THEN <<"\\">> ELSE <<>>)
         \o escapeAfter(Tail(s))

RECURSIVE escape(_)
\* for each character: a backslash to the output if it is not found in
\* alphanum_str, then the character itself
escape(s) ==
    IF s = <<>> THEN <<>>
    ELSE (IF NotFound(Head(s)) THEN <<"\\">> ELSE <<>>) \o <<Head(s)>>
         \o escape(Tail(s))

\* the characters of the names tried: letters, digits, the underscore and
\* three others, the backslash among them
Chars == {"a", "Z", "0", "9", "_", ".", "+", "\\"}

Strings == UNION {[1..n -> Chars] : n \in 0..MaxLen}

\* the caller has a name at hand
InitEscape ==
    /\ \E s \in Strings :
          pend = [t \in Threads |-> IF t = 1 THEN [op |-> "escape", s |-> s] ELSE Idle]
    /\ openedFiles = <<>>
    /\ osOpen = [fd \in {0, 1, 2} |-> Tty]
    /\ ret = Event("none", 0, 0, 0, 0, NoErr)
    /\ live = EmptyBag
    /\ everClosed = {}
    /\ dead = {}
    /\ sinceRet = <<>>
    /\ lastOpen = {}
    /\ was = NoWas
    /\ stream = <<>>
    /\ rt = <<>>
    /\ phase = <<>>
    /\ origin = <<>>

\* escape(s) returns
escape_call ==
    /\ pend[1] # Idle
    /\ ret' = Event("escape", 0, pend[1].s, 0, escape(pend[1].s), NoErr)
    /\ pend' = [pend EXCEPT ![1] = Idle]
    /\ UNCHANGED <<openedFiles, osOpen, tableGhosts, ioGhosts>>

\* the caller goes on with a name one character longer
escape_arg ==
    /\ pend[1] = Idle
    /\ ret.op = "escape"
    /\ Len(ret.a1) < MaxLen
    /\ \E c \in Chars :
          pend' = [pend EXCEPT ![1] = [op |-> "escape", s |-> Append(ret.a1, c)]]
    /\ ret' = Event("none", 0, 0, 0, 0, NoErr)
    /\ UNCHANGED <<openedFiles, osOpen, tableGhosts, ioGhosts>>

NextEscape ==
    \/ escape_call
    \/ escape_arg

SpecEscape == InitEscape /\ [][NextEscape]_vars

\* the characters of Chars that are in [A-Za-z0-9_]
WordChars == {"a", "Z", "0", "9", "_"}

RECURSIVE Unescaped(_)
\* e read from the left: a backslash marks the character behind it; the
\* characters in order, each with its mark
Unescaped(e) ==
    IF e = <<>> THEN <<>>
    ELSE IF Head(e) = "\\" /\ Len(e) >= 2
    THEN <<[c |-> e[2], marked |-> TRUE]>> \o Unescaped(Tail(Tail(e)))
    ELSE <<[c |-> Head(e), marked |-> FALSE]>> \o Unescaped(Tail(e))

\* C22: escape(s) is s with a backslash inserted before every character
\* that is not in [A-Za-z0-9_], all characters kept in order; so escape(s)
\* is s when s is made of [A-Za-z0-9_] only, and taking the inserted
\* backslashes out of escape(s) gives s.
EscapeInserts ==
    ret.op = "escape" =>
    /\ Unescaped(ret.rv) =
          [i \in 1..Len(ret.a1) |->
              [c |-> ret.a1[i], marked |-> ret.a1[i] \notin WordChars]]
    /\ Len(ret.rv) = Len(ret.a1)
                     + Cardinality({i \in 1..Len(ret.a1) : ret.a1[i] \notin WordChars})
    /\ (\A i \in 1..Len(ret.a1) : ret.a1[i] \in WordChars) => ret.rv = ret.a1
    /\ [i \in 1..Len(ret.a1) |-> Unescaped(ret.rv)[i].c] = ret.a1

\* escape has returned for a name that holds a backslash, a character of
\* [A-Za-z0-9_] and another one
EscapeWitness ==
    /\ ret.op = "escape"
    /\ \E i, j, k \in 1..Len(ret.a1) :
          ret.a1[i] = "\\" /\ ret.a1[j] \in WordChars /\ ret.a1[k] = "."
    /\ ret.rv # ret.a1

----------------------------------------------------------------------------
(* The cursor after a seek *)

\* the chunks of f that hold position p: chunkOffset <= p < chunkOffset + chunkSize
Holds(f, p) ==
    {i \in DOMAIN f.fileChunks :
        /\ f.fileChunks[i].chunkOffset <= p
        /\ p < f.fileChunks[i].chunkOffset + f.fileChunks[i].chunkSize}

\* the cursor of f is at the chunk that holds p, or at the end when no chunk does
Designates(f, p) ==
    IF Holds(f, p) # {} THEN f.chunkPtr \in Holds(f, p)
    ELSE f.chunkPtr = ChunksEnd(f)

\* the seeks of SpecIO that succeed on fd and move its file pointer
MovingSeeks(fd) ==
    {a \in SeekOffsets(fd) \X {SEEK_SET, SEEK_CUR, SEEK_END} :
        /\ vbs_lseek_fn(openedFiles, osOpen, fd, a[1], a[2]).rv >= 0
        /\ vbs_lseek_fn(openedFiles, osOpen, fd, a[1], a[2]).rv
              # openedFiles[fd].filePointer}

\* C23: after a successful seek to a position p other than the current one
\* the cursor designates the chunk C with C.chunkOffset <= p < C.chunkOffset
\* + C.chunkSize, or the end when p >= fileSize; also when p is exactly a
\* chunk boundary or exactly fileSize.
SeekCursor ==
    \A fd \in DOMAIN openedFiles :
        \A a \in MovingSeeks(fd) :
            Designates(vbs_lseek_fn(openedFiles, osOpen, fd, a[1], a[2]).tbl[fd],
                       vbs_lseek_fn(openedFiles, osOpen, fd, a[1], a[2]).rv)

\* seek(fd, fileSize, SEEK_SET) has returned fileSize on a file of more than
\* one chunk, and the cursor is at a chunk, not at the end
SeekCursorWitness ==
    \E fd \in DOMAIN openedFiles :
        /\ ret = Event("seek", fd, openedFiles[fd].fileSize, SEEK_SET,
                       openedFiles[fd].fileSize, NoErr)
        /\ phase[fd] = "past"
        /\ Len(openedFiles[fd].fileChunks) > 1
        /\ openedFiles[fd].filePointer = openedFiles[fd].fileSize
        /\ openedFiles[fd].chunkPtr # ChunksEnd(openedFiles[fd])

\* what does hold: the seek leaves the cursor at the first chunk that ends
\* at or behind p, which is the chunk that holds p unless p is where a chunk
\* ends; at the end only when p > fileSize
SeekCursorAtFirstEnd ==
    \A fd \in DOMAIN openedFiles :
        \A a \in MovingSeeks(fd) :
            LET r == vbs_lseek_fn(openedFiles, osOpen, fd, a[1], a[2])
                f == r.tbl[fd]
                E == {i \in DOMAIN f.fileChunks :
                         r.rv <= f.fileChunks[i].chunkOffset + f.fileChunks[i].chunkSize}
            IN /\ f.filePointer = r.rv
               /\ IF E = {} THEN f.chunkPtr = ChunksEnd(f) /\ r.rv > f.fileSize
                  ELSE f.chunkPtr = SeqMin(E)
               /\ \A i \in Holds(f, r.rv) :
                     f.chunkPtr = i
                     \/ (f.chunkPtr < i /\ r.rv = f.fileChunks[i].chunkOffset)

----------------------------------------------------------------------------
(* Lazily opened descriptors of scattered chunks *)

\* the descriptors of the process that are open on scattered chunks
ScatteredFds(os) == {n \in DiskFds(os) : os[n][1] = "vbs"}

\* C24: between operations a scattered chunk of a virtual file has an open
\* descriptor only if it is the chunk at the cursor of that file, so at most
\* one scattered descriptor is open per virtual file: read closes the
\* descriptor of a chunk before it moves the cursor past it, seek closes it
\* when the cursor moves to another chunk.  The descriptors open on
\* scattered chunks are those the chunks at the cursors hold.
LazyDescriptors ==
    /\ \A h \in DOMAIN openedFiles :
          \A i \in DOMAIN openedFiles[h].fileChunks :
              OwnsFd(openedFiles[h].fileChunks[i]) =>
                  /\ i = openedFiles[h].chunkPtr
                  /\ openedFiles[h].fileChunks[i].chunkFd \in DOMAIN osOpen
                  /\ osOpen[openedFiles[h].fileChunks[i].chunkFd]
                        = openedFiles[h].fileChunks[i].pathToChunk
    /\ Running =>
          \A n \in ScatteredFds(osOpen) :
              \E h \in DOMAIN openedFiles :
                  /\ openedFiles[h].chunkPtr # ChunksEnd(openedFiles[h])
                  /\ openedFiles[h].fileChunks[openedFiles[h].chunkPtr].chunkFd = n
    /\ Cardinality(ScatteredFds(osOpen)) <= Cardinality(DOMAIN openedFiles)

\* one read has taken bytes from two scattered chunks, and the second of
\* them is at the cursor with its descriptor open
LazyDescriptorsWitness ==
    \E h \in DOMAIN openedFiles :
        /\ ret.op = "read" /\ ret.fd = h
        /\ ret.rv > openedFiles[h].fileChunks[1].chunkSize
        /\ openedFiles[h].chunkPtr \in 2..Len(openedFiles[h].fileChunks)
        /\ OwnsFd(openedFiles[h].fileChunks[openedFiles[h].chunkPtr])

\* a seek has moved the cursor from a chunk that had its descriptor open to
\* an earlier chunk
LazyDescriptorsSeekWitness ==
    \E h \in DOMAIN openedFiles :
        /\ ret.op = "seek" /\ ret.fd = h /\ ret.rv = 0
        /\ openedFiles[h].chunkPtr = 1
        /\ ScatteredFds(osOpen) = {}
        /\ stream[h] = Void
        /\ Len(openedFiles[h].fileChunks) > 1
        /\ openedFiles[h].fileChunks[1].pathToChunk # ""

----------------------------------------------------------------------------
(* Copies of a virtual file *)

\* what a chunk is apart from its descriptor
Placed(c) == [c EXCEPT !.chunkFd = 0]

\* the table with a copy of the file of h installed as h2
WithCopy(h, h2) == MapInsert(openedFiles, h2, openedFiles[h])

\* C25: a copy of a virtual file, as made when a file is installed in the
\* handle table, has position 0, its cursor at the first chunk of its own
\* chunk set, the size, chunk sizes and logical offsets of the source, no
\* open scattered descriptor of its own and the shared block-header
\* descriptors of the source; operations on the copy leave the source, its
\* cursor and its open descriptor as they are.
CopySemantics ==
    \A h \in DOMAIN openedFiles :
        LET f  == openedFiles[h]
            c  == openfile_copy(f)
            h2 == h - 1
        IN /\ c.filePointer = 0
           /\ c.chunkPtr = 1
           /\ c.fileSize = f.fileSize
           /\ Len(c.fileChunks) = Len(f.fileChunks)
           /\ \A i \in DOMAIN f.fileChunks :
                 /\ Placed(c.fileChunks[i]) = Placed(f.fileChunks[i])
                 /\ ~OwnsFd(c.fileChunks[i])
                 /\ f.fileChunks[i].chunkFd < 0 =>
                        c.fileChunks[i].chunkFd = f.fileChunks[i].chunkFd
                 /\ f.fileChunks[i].chunkFd >= 0 =>
                        c.fileChunks[i].chunkFd = invalidFileDescriptor
           /\ WithCopy(h, h2)[h2] = c
           /\ \A count \in 1..MaxCount :
                 LET r == vbs_read_fn(WithCopy(h, h2), osOpen, h2, "buf", count, MaxCount)
                 IN /\ r.tbl[h] = f
                    /\ \A i \in DOMAIN f.fileChunks :
                          OwnsFd(f.fileChunks[i]) =>
                              /\ f.fileChunks[i].chunkFd \in DOMAIN r.os
                              /\ r.os[f.fileChunks[i].chunkFd] = f.fileChunks[i].pathToChunk
                              /\ \A j \in DOMAIN f.fileChunks :
                                    r.tbl[h2].fileChunks[j].chunkFd # f.fileChunks[i].chunkFd
           /\ \A p \in 0..f.fileSize :
                 LET r == vbs_lseek_fn(WithCopy(h, h2), osOpen, h2, p, SEEK_SET)
                 IN r.tbl[h] = f /\ r.os = osOpen

\* a file whose position is not 0 and whose cursor is at a later chunk that
\* has its descriptor open, so that a copy differs from it in all of these
CopySemanticsWitness ==
    \E h \in DOMAIN openedFiles :
        /\ openedFiles[h].filePointer > 0
        /\ openedFiles[h].chunkPtr \in 2..Len(openedFiles[h].fileChunks)
        /\ OwnsFd(openedFiles[h].fileChunks[openedFiles[h].chunkPtr])
        /\ openfile_copy(openedFiles[h]) # openedFiles[h]

\* a file of block-header chunks whose position is not 0: a copy shares its
\* descriptors
CopySharedWitness ==
    \E h \in DOMAIN openedFiles :
        /\ openedFiles[h].filePointer > 0
        /\ \A i \in DOMAIN openedFiles[h].fileChunks :
              openedFiles[h].fileChunks[i].chunkFd < 0

----------------------------------------------------------------------------
(* The bounds of block-header chunks *)

\* every write-block header of the files of rec on mps gives a block number
\* >= 0 and a size > 0
SaneHeaders(rec, mps) ==
    \A mp \in Range(mps.dirs) :
        ValidMk6(rec, mp) =>
            \A i \in DOMAIN Mk6Disk[rec][mp].blocks :
                /\ Mk6Disk[rec][mp].blocks[i].blocknum >= 0
                /\ Mk6Disk[rec][mp].blocks[i].wb_size > 0

\* C26: every block-header chunk of a chunk set that discovery produced has
\* size >= 0, position >= the size of the file header, and position + size
\* <= the physical size of the file it lies in, for files whose block
\* headers all have a block number >= 0 and a size > 0 (a size below that
\* of a block header and a last block cut short by the end of the file
\* included).
BlockBounds ==
    \A h \in DOMAIN openedFiles :
        (Running /\ origin[h].kind = "mk6" /\ SaneHeaders(origin[h].rec, origin[h].mps)) =>
            \A i \in DOMAIN openedFiles[h].fileChunks :
                LET c == openedFiles[h].fileChunks[i]
                IN /\ c.chunkSize >= 0
                   /\ c.chunkPos >= fh_size
                   /\ (c.chunkFd < 0 /\ -c.chunkFd \in DOMAIN osOpen) =>
                          c.chunkPos + c.chunkSize <= PhysSize(osOpen[-c.chunkFd])

\* open has returned a handle for a recording with a block header that
\* gives a size below that of a block header
BlockBoundsWitness ==
    \E h \in DOMAIN openedFiles :
        /\ ret.op = "open" /\ ret.rv = h
        /\ origin[h].kind = "mk6"
        /\ SaneHeaders(origin[h].rec, origin[h].mps)
        /\ \E mp \in Range(origin[h].mps.dirs) :
              /\ ValidMk6(origin[h].rec, mp)
              /\ \E i \in DOMAIN Mk6Disk[origin[h].rec][mp].blocks :
                    Mk6Disk[origin[h].rec][mp].blocks[i].wb_size < wb_size

\* what does hold: the position of a chunk is behind a file header and a
\* block header, and the chunk lies in its file with a size >= 0 when every
\* header gives at least the size of a header and every block is complete
BlockBoundsOfWholeBlocks ==
    \A h \in DOMAIN openedFiles :
        (Running /\ origin[h].kind = "mk6" /\ SaneHeaders(origin[h].rec, origin[h].mps)) =>
            \A i \in DOMAIN openedFiles[h].fileChunks :
                LET c == openedFiles[h].fileChunks[i]
                IN /\ c.chunkPos >= fh_size + wb_size
                   /\ (c.chunkFd < 0 /\ -c.chunkFd \in DOMAIN osOpen) =>
                          LET file == Mk6Disk[osOpen[-c.chunkFd][3]][osOpen[-c.chunkFd][2]]
                          IN (/\ \A j \in DOMAIN file.blocks : file.blocks[j].wb_size >= wb_size
                              /\ file.size >= fh_size + WrittenLen(file.blocks)) =>
                                 /\ c.chunkSize >= 0
                                 /\ c.chunkPos + c.chunkSize <= PhysSize(osOpen[-c.chunkFd])

----------------------------------------------------------------------------
(* Files that are skipped by block-header discovery *)

\* the mountpoints of mps that hold a file named rec that is not a version 2
\* Mark6 file: its header is short, or has another sync word or version
StaleIn(rec, mps) ==
    {mp \in Range(mps.dirs) :
        rec \in DOMAIN Mk6Disk /\ Mk6Disk[rec][mp].exists /\ ~ValidMk6(rec, mp)}

Without(seq, mp) == SelectSeq(seq, LAMBDA x : x # mp)

\* C27: a mountpoint file whose file header is short or has a sync word
\* other than MARK6_SG_SYNC_WORD or a version other than 2 is skipped: it
\* contributes no chunk, its descriptor is closed, no failure is raised and
\* the chunks of the other mountpoints are discovered all the same, so that
\* open succeeds iff some other mountpoint yields a chunk.  Here: the scan
\* comes to what it comes to without that mountpoint.
StaleSkipped ==
    \A recname \in ScanMk6Names \ {"", NullPtr}, rootdirs \in ScanDirs \ {NullDirs} :
        \A order \in Orders(Range(rootdirs.dirs)) :
            \A mp \in StaleIn(recname, rootdirs) :
                LET full == mk6_open_scan_fn(osOpen, recname, rootdirs, order)
                    rest == mk6_open_scan_fn(osOpen, recname,
                                             Dirs(Without(rootdirs.dirs, mp)),
                                             Without(order, mp))
                IN /\ full = rest
                   /\ full.err \in {NoErr, ENOENT}
                   /\ \A n \in DOMAIN full.os : full.os[n] # Mk6Path(mp, recname)
                   /\ ~Mk6Corrupt(recname, rootdirs) =>
                         (full.err = NoErr <=>
                             \E m2 \in Range(rootdirs.dirs) \ {mp} :
                                 Mk6Numbers(recname, m2) # {})

\* open has returned a handle for a recording of which one mountpoint holds
\* a file that is not a version 2 Mark6 file; that file is not open
StaleSkippedWitness ==
    /\ OpenOf("mk6") /\ ret.err = NoErr
    /\ StaleIn(ret.a1[2], ret.a2) # {}
    /\ \A mp \in StaleIn(ret.a1[2], ret.a2) :
          \A n \in DOMAIN osOpen : osOpen[n] # Mk6Path(mp, ret.a1[2])

\* open has failed with ENOENT on a mountpoint that holds such a file only
StaleOnlyWitness ==
    /\ OpenOf("mk6") /\ ret.err = ENOENT
    /\ ~NullOrEmpty(ret.a1[2], ret.a2)
    /\ StaleIn(ret.a1[2], ret.a2) # {}

----------------------------------------------------------------------------
(* The mutex of block-header discovery *)

\* the step is a step of the scan
InScanStep == pend[1].op = "scan" /\ pend'[1].op = "scan"

\* C28: during block-header discovery the shared chunk set is modified only
\* by a worker that holds the mutex; at most one worker is inside the merge
\* section at any time; each worker parses its file into a local set of its
\* own outside the mutex; every path through a worker that takes the mutex
\* releases it.
MutexDiscipline ==
    /\ [](pend[1].op = "scan" => Cardinality(Holders(pend[1])) <= 1)
    /\ [][(InScanStep /\ pend'[1].fcs # pend[1].fcs) =>
             \E mp \in Holders(pend[1]) :
                 /\ Holders(pend[1]) = {mp}
                 /\ pend'[1].fcs = Mk6Merge(pend[1].fcs, pend[1].w[mp].lcl)
                 /\ pend'[1].w[mp].lcl = pend[1].w[mp].lcl]_vars
    /\ [][InScanStep =>
             \A mp \in DOMAIN pend[1].w :
                 pend'[1].w[mp].lcl # pend[1].w[mp].lcl =>
                     /\ pend'[1].fcs = pend[1].fcs
                     /\ mp \notin Holders(pend[1]) \/ pend'[1].w[mp].pc = "exit"
                     /\ \A m2 \in DOMAIN pend[1].w \ {mp} :
                           pend'[1].w[m2] = pend[1].w[m2]]_vars
    /\ [][InScanStep =>
             \A mp \in Holders(pend[1]) \ Holders(pend'[1]) :
                 pend'[1].w[mp].pc = "exit"]_vars
    /\ [](InScan("returned") => Holders(pend[1]) = {})
    /\ [](pend[1].op # "scan" => \A t \in Threads : pend[t] = Idle)

\* a worker is in the merge section with chunks of its own to insert, and
\* the other worker has scanned its file and waits for the mutex
MutexDisciplineWitness ==
    /\ pend[1].op = "scan"
    /\ \E mp \in Holders(pend[1]) :
          /\ pend[1].w[mp].pc = "locked"
          /\ pend[1].w[mp].lcl # <<>>
          /\ \E m2 \in DOMAIN pend[1].w \ {mp} :
                pend[1].w[m2].pc = "scanned" /\ pend[1].w[m2].lcl # <<>>

\* the scan has returned with chunks of both workers in the shared set
MutexReleasedWitness ==
    /\ InScan("returned")
    /\ Holders(pend[1]) = {}
    /\ Len(pend[1].fcs) > 2

----------------------------------------------------------------------------
(* The outcome of block-header discovery and the order of the workers *)

\* the file that the chunk c is read from, the descriptors being os
FileOf(c, os) ==
    IF c.chunkFd < 0 /\ -c.chunkFd \in DOMAIN os THEN os[-c.chunkFd] ELSE <<>>

\* what the scan r hands to the virtual file: for each sequence number its
\* size, its position and the file it is read from
Handed(r) ==
    [i \in DOMAIN r.chunks |->
        [chunkNumber |-> r.chunks[i].chunkNumber,
         chunkSize   |-> r.chunks[i].chunkSize,
         chunkPos    |-> r.chunks[i].chunkPos,
         file        |-> FileOf(r.chunks[i], r.os)]]

\* C29: block-header discovery is deterministic: for a fixed set of
\* mountpoint files the chunk set handed to the virtual file (for each
\* sequence number its size, its position and the file it is read from),
\* and with it the bytes of the logical stream, is the same for every
\* interleaving of the workers, also when a sequence number occurs on more
\* than one mountpoint.
DeterministicDiscovery ==
    Running =>
    \A recname \in ScanMk6Names, rootdirs \in ScanDirs :
        \A o1, o2 \in Orders(Range(rootdirs.dirs)) :
            /\ mk6_open_scan_fn(osOpen, recname, rootdirs, o1).err
                  = mk6_open_scan_fn(osOpen, recname, rootdirs, o2).err
            /\ Handed(mk6_open_scan_fn(osOpen, recname, rootdirs, o1))
                  = Handed(mk6_open_scan_fn(osOpen, recname, rootdirs, o2))

\* open has returned a handle for a recording of which both mountpoints hold
\* a block of the same number, descriptor 0 being open; the chunk of that
\* number is read from mountpoint 2, the worker of which was the first to
\* merge
DeterministicDiscoveryWitness ==
    \E h \in DOMAIN openedFiles :
        /\ ret.op = "open" /\ ret.rv = h
        /\ origin[h].kind = "mk6"
        /\ 0 \in origin[h].fds
        /\ \E i \in DOMAIN openedFiles[h].fileChunks :
              /\ openedFiles[h].fileChunks[i].chunkNumber
                    \in Mk6Numbers(origin[h].rec, 1) \cap Mk6Numbers(origin[h].rec, 2)
              /\ FileOf(openedFiles[h].fileChunks[i], osOpen) = Mk6Path(2, origin[h].rec)
              /\ mk6_open_scan_fn([fd \in origin[h].fds |-> osOpen[fd]], origin[h].rec,
                                  origin[h].mps, <<1, 2>>).chunks[i].chunkSize
                    # openedFiles[h].fileChunks[i].chunkSize

\* what does hold: the outcome is the same for every order of the workers
\* when no block number occurs on two mountpoints and descriptor 0 is open
DeterministicWithoutDuplicates ==
    \A recname \in ScanMk6Names, rootdirs \in ScanDirs :
        (Running /\ 0 \in DOMAIN osOpen /\ ~Mk6Duplicate(recname, rootdirs)) =>
            \A o1, o2 \in Orders(Range(rootdirs.dirs)) :
                /\ mk6_open_scan_fn(osOpen, recname, rootdirs, o1).err
                      = mk6_open_scan_fn(osOpen, recname, rootdirs, o2).err
                /\ Handed(mk6_open_scan_fn(osOpen, recname, rootdirs, o1))
                      = Handed(mk6_open_scan_fn(osOpen, recname, rootdirs, o2))

----------------------------------------------------------------------------
(* The end of the read loop *)

\* C30: every read call terminates: whatever the state of the virtual file
\* and whatever the OS calls come to (bytes, an error, or no bytes because
\* the file of a chunk is shorter than the size recorded for the chunk at
\* discovery), the read loop ends after finitely many iterations.  Here: no
\* read of an open file comes to an iteration that leaves nr, the file
\* pointer and the cursor as they were.
ReadTerminates ==
    Running =>
    \A h \in DOMAIN openedFiles :
        \A count \in 1..MaxCount, maxio \in {1, MaxCount} :
            ~vbs_read_fn(openedFiles, osOpen, h, "buf", count, maxio).hang

\* the bytes of the chunk c that its file does not hold
Missing(c, os) ==
    c.chunkFd < 0 /\ -c.chunkFd \in DOMAIN os
    /\ c.chunkPos + c.chunkSize > PhysSize(os[-c.chunkFd])

\* a read has returned the one byte that the file holds of a block of two
\* bytes; the file pointer is in front of the missing byte, and every
\* further read of at least one byte loops there
ReadTerminatesWitness ==
    \E h \in DOMAIN openedFiles :
        /\ ret.op = "read" /\ ret.fd = h /\ ret.rv = 1
        /\ openedFiles[h].chunkPtr # ChunksEnd(openedFiles[h])
        /\ Missing(openedFiles[h].fileChunks[openedFiles[h].chunkPtr], osOpen)
        /\ openedFiles[h].filePointer < openedFiles[h].fileSize
        /\ \A count \in 1..MaxCount :
              vbs_read_fn(openedFiles, osOpen, h, "buf", count, MaxCount).hang

\* what does hold: a read ends when the files hold all bytes of the chunks
ReadTerminatesOnWholeChunks ==
    Running =>
    \A h \in DOMAIN openedFiles :
        (\A i \in DOMAIN openedFiles[h].fileChunks :
             ~Missing(openedFiles[h].fileChunks[i], osOpen)) =>
            \A count \in 1..MaxCount, maxio \in {1, MaxCount} :
                ~vbs_read_fn(openedFiles, osOpen, h, "buf", count, maxio).hang

----------------------------------------------------------------------------
(* The cursor and the position *)

\* C31: after any sequence of successful reads and seeks on a handle, if
\* the cursor designates a chunk C then C.chunkOffset <= filePointer <=
\* C.chunkOffset + C.chunkSize, and if the cursor is at the end then
\* filePointer >= fileSize; filePointer is never negative.
CursorInvariant ==
    \A h \in DOMAIN openedFiles :
        LET f == openedFiles[h]
        IN /\ f.filePointer >= 0
           /\ f.chunkPtr \in 1..ChunksEnd(f)
           /\ IF f.chunkPtr = ChunksEnd(f) THEN f.filePointer >= f.fileSize
              ELSE /\ f.fileChunks[f.chunkPtr].chunkOffset <= f.filePointer
                   /\ f.filePointer <= f.fileChunks[f.chunkPtr].chunkOffset
                                       + f.fileChunks[f.chunkPtr].chunkSize

\* a seek has been followed by a read that has moved the cursor to a later
\* chunk, where the position now is behind the first byte of that chunk
CursorInvariantWitness ==
    \E h \in DOMAIN openedFiles :
        /\ ret.op = "read" /\ ret.fd = h /\ ret.rv > 0
        /\ rt[h] # <<>> /\ rt[h][1] = "read"
        /\ openedFiles[h].chunkPtr \in 2..Len(openedFiles[h].fileChunks)
        /\ openedFiles[h].filePointer
              > openedFiles[h].fileChunks[openedFiles[h].chunkPtr].chunkOffset

\* a seek has put the position behind the end of the file and the cursor at
\* the end
CursorAtEndWitness ==
    \E h \in DOMAIN openedFiles :
        /\ ret.op = "seek" /\ ret.fd = h
        /\ openedFiles[h].chunkPtr = ChunksEnd(openedFiles[h])
        /\ openedFiles[h].filePointer > openedFiles[h].fileSize

\* what does hold: the same of a file whose chunks all have a size >= 0
CursorInvariantOfSizedChunks ==
    \A h \in DOMAIN openedFiles :
        LET f == openedFiles[h]
        IN (\A i \in DOMAIN f.fileChunks : f.fileChunks[i].chunkSize >= 0) =>
              /\ f.filePointer >= 0
              /\ f.chunkPtr \in 1..ChunksEnd(f)
              /\ IF f.chunkPtr = ChunksEnd(f) THEN f.filePointer >= f.fileSize
                 ELSE /\ f.fileChunks[f.chunkPtr].chunkOffset <= f.filePointer
                      /\ f.filePointer <= f.fileChunks[f.chunkPtr].chunkOffset
                                          + f.fileChunks[f.chunkPtr].chunkSize

\* open has returned a handle for a file whose first chunk has a size below
\* 0: the position 0 is behind the end of the chunk at the cursor
NegativeChunkWitness ==
    \E h \in DOMAIN openedFiles :
        /\ ret.op = "open" /\ ret.rv = h
        /\ openedFiles[h].filePointer = 0 /\ openedFiles[h].chunkPtr = 1
        /\ openedFiles[h].fileChunks[1].chunkSize < 0

-----------------------------------------------------------------------------
(* What read and seek leave alone *)

\* the descriptors that the scattered chunks of a virtual file hold
HeldFds(of) ==
    {of.fileChunks[i].chunkFd : i \in {j \in DOMAIN of.fileChunks : OwnsFd(of.fileChunks[j])}}

\* what a virtual file is apart from its position, its cursor and the
\* descriptors of its chunks
Frozen(of) == [fileSize |-> of.fileSize,
               fileChunks |-> [i \in DOMAIN of.fileChunks |-> Placed(of.fileChunks[i])]]

\* the descriptors that are open, or open on something else, in one of os
\* and osOpen only
Touched(os) ==
    {n \in DOMAIN os \cup DOMAIN osOpen :
        ~(n \in DOMAIN os /\ n \in DOMAIN osOpen /\ os[n] = osOpen[n])}

\* a call on h that leaves the table tbl and the descriptors os has changed
\* nothing but the position, the cursor and the scattered descriptors of h
FrameOf(h, tbl, os) ==
    /\ DOMAIN tbl = DOMAIN openedFiles
    /\ \A g \in DOMAIN tbl \ {h} : tbl[g] = openedFiles[g]
    /\ h \in DOMAIN tbl => Frozen(tbl[h]) = Frozen(openedFiles[h])
    /\ \A n \in Touched(os) :
          /\ h \in DOMAIN tbl
          /\ n \in DOMAIN osOpen =>
                n \in ScatteredFds(osOpen) /\ n \in HeldFds(openedFiles[h])
          /\ n \in DOMAIN os =>
                n \in ScatteredFds(os) /\ n \in HeldFds(tbl[h])

FrameHandles == SyncHandles \cup {IntMax - 2}

\* C32: a read or seek on handle h changes only the position, the cursor and
\* the lazily opened descriptors of the scattered chunks of h's virtual
\* file; the handles in the table, the chunks of h with their sizes and
\* logical offsets, the size of h, and every other handle's virtual file
\* with its descriptors are unchanged.
FrameOfReadAndSeek ==
    \A h \in FrameHandles :
        /\ \A buf \in Bufs, count \in 0..MaxCount, maxio \in {1, MaxCount} :
              LET r == vbs_read_fn(openedFiles, osOpen, h, buf, count, maxio)
              IN ~r.hang => FrameOf(h, r.tbl, r.os)
        /\ \A whence \in Whences, offset \in SeekOffsets(h) :
              LET r == vbs_lseek_fn(openedFiles, osOpen, h, offset, whence)
              IN FrameOf(h, r.tbl, r.os)

\* a read on one handle has returned bytes while the other handle is open,
\* away from its start, with a scattered descriptor of its own
FrameWitness ==
    \E h \in DOMAIN openedFiles, g \in DOMAIN openedFiles :
        /\ h # g
        /\ ret.op = "read" /\ ret.fd = h /\ ret.rv > 0
        /\ HeldFds(openedFiles[h]) # {}
        /\ openedFiles[g].filePointer > 0
        /\ HeldFds(openedFiles[g]) # {}

\* a seek on one handle has returned 0 and left the handle without a
\* descriptor, while the other handle is open with a scattered descriptor
\* of its own
FrameSeekWitness ==
    \E h \in DOMAIN openedFiles, g \in DOMAIN openedFiles :
        /\ h # g
        /\ ret.op = "seek" /\ ret.fd = h /\ ret.rv = 0
        /\ HeldFds(openedFiles[h]) = {} /\ openedFiles[h].fileChunks[1].pathToChunk # ""
        /\ HeldFds(openedFiles[g]) # {}

-----------------------------------------------------------------------------
(* in2disk_fn: the record command.  The runtime rte is the record in        *)
(* pend[1]; strings that the command puts together are sequences of words.  *)

no_transfer == "no_transfer"
in2disk     == "in2disk"
run_flag    == "run"

\* the calls out of in2disk_fn that can raise
Calls == {"XLRGetDeviceStatus", "XLRGetDeviceInfo", "XLRGetDirectory", "ioboard",
          "XLRSetMode", "startScan", "XLRAppend", "start", "XLRStop", "finishScan"}

\* what a call of in2disk_fn leaves: the runtime and its reply, or the
\* runtime and an exception on its way to the caller
In2diskReply(rte, code, text) ==
    [rte |-> rte, out |-> "reply", code |-> code, text |-> text]

In2diskThrows(rte) == [rte |-> rte, out |-> "raised", code |-> -1, text |-> <<>>]

\* INPROGRESS(rte, reply, cond): the command is refused while cond holds
INPROGRESS(rte) == [rte |-> rte, out |-> "inprogress", code |-> -1, text |-> <<>>]

\* OPTARG(n, args): args[n] of the code, the empty string when there is none
OPTARG(n, args) == IF Len(args) > n THEN args[n + 1] ELSE <<>>

\* what follows when part is appended to the scanlabel built so far
LabelPlus(scanlabel, part) ==
    IF part = <<>> THEN scanlabel
    ELSE IF scanlabel = <<>> THEN part
    ELSE scanlabel \o <<"_">> \o part

\* experiment_station_scan_source, "+" if that is empty
Scanlabel(args) ==
    LET l == LabelPlus(LabelPlus(LabelPlus(LabelPlus(<<>>, OPTARG(3, args)),
                                           OPTARG(4, args)),
                                 args[3]),
                       OPTARG(5, args))
    IN IF l = <<>> THEN <<"+">> ELSE l

\* if( qry ): the status of the recording, read from the device
In2diskQuery(rte, env) ==
    IF rte.transfermode # in2disk THEN In2diskReply(rte, 0, <<"off">>)
    ELSE IF "XLRGetDeviceStatus" \in env.fails THEN In2diskThrows(rte)
    ELSE IF env.Recording
    THEN IF rte.hardware = "mk5a"
         THEN IF "ioboard" \in env.fails THEN In2diskThrows(rte)
              ELSE In2diskReply(rte, 0, IF env.throttle THEN <<"throttled">>
                                        ELSE IF env.Overflow THEN <<"overflow">>
                                        ELSE <<"on">>)
         ELSE IF rte.hardware = "dim"
         THEN IF ~env.Overflow /\ "ioboard" \in env.fails THEN In2diskThrows(rte)
              ELSE In2diskReply(rte, 0, IF env.Overflow \/ env.DIM_OF THEN <<"overflow">>
                                        ELSE <<"on">>)
         ELSE In2diskReply(rte, 0, <<"on">>)
    ELSE IF "XLRGetDirectory" \in env.fails THEN In2diskThrows(rte)
    ELSE In2diskReply(rte, 0, IF env.Full THEN <<"halted">> ELSE <<"waiting">>)

\* switch off clock (mk5a) or stop the DFH-generator
OnStopsBoard(rte) ==
    IF rte.hardware = "mk5a" THEN [rte EXCEPT !.notClock = 1]
    ELSE IF rte.hardware = "dim" THEN [rte EXCEPT !.DIM_STARTSTOP = 0]
    ELSE rte

\* kick off the I/O board
OnStartsBoard(rte) ==
    IF rte.hardware = "mk5a" THEN [rte EXCEPT !.notClock = 0]
    ELSE IF rte.hardware = "dim" THEN [rte EXCEPT !.DIM_STARTSTOP = 1]
    ELSE rte

\* update global transferstatus variables to indicate what we're doing
OnRecording(rte) ==
    In2diskReply([rte EXCEPT !.statistics = "clear",
                             !.transfermode = in2disk,
                             !.transfersubmode = {run_flag}],
                 0, <<>>)

\* on, from the programming of the StreamStor: r1 is the runtime with the
\* board stopped, r2 that with the scan started as well
OnProgrammed(r1, r2, env) ==
    IF "XLRSetMode" \in env.fails THEN In2diskThrows(r1)
    ELSE IF "startScan" \in env.fails THEN In2diskThrows([r1 EXCEPT !.ss = "bound"])
    ELSE IF "XLRAppend" \in env.fails THEN In2diskThrows([r2 EXCEPT !.ss = "bound"])
    ELSE IF "start" \in env.fails /\ r2.hardware \in {"mk5a", "dim"}
    THEN In2diskThrows([r2 EXCEPT !.ss = "recording"])
    ELSE OnRecording(OnStartsBoard([r2 EXCEPT !.ss = "recording"]))

\* if( args[1]=="on" )
In2diskOn(args, rte, env) ==
    IF Len(args) < 3 THEN In2diskThrows(rte)
    ELSE IF rte.transfermode # no_transfer
    THEN In2diskReply(rte, 6, <<"Already doing", rte.transfermode>>)
    ELSE IF "XLRGetDeviceInfo" \in env.fails \/ env.NumDrives = 0 THEN In2diskThrows(rte)
    ELSE IF "XLRGetDirectory" \in env.fails \/ env.Full \/ env.WriteProtected
    THEN In2diskThrows(rte)
    ELSE IF "ioboard" \in env.fails /\ rte.hardware \in {"mk5a", "dim"}
    THEN In2diskThrows(rte)
    ELSE OnProgrammed(OnStopsBoard(rte),
                      [OnStopsBoard(rte) EXCEPT !.curscanptr = Scanlabel(args)], env)

\* stop transferring from I/O board => streamstor: [rte, error_message]
OffStopsBoard(rte, env) ==
    IF rte.hardware \notin {"mk5a", "dim"} THEN [rte |-> rte, error_message |-> <<>>]
    ELSE IF "ioboard" \in env.fails
    THEN [rte |-> rte, error_message |-> <<"Failed to stop I/O board">>]
    ELSE IF rte.hardware = "mk5a"
    THEN [rte |-> [rte EXCEPT !.notClock = 1], error_message |-> <<>>]
    ELSE [rte |-> [rte EXCEPT !.DIM_STARTSTOP = 0, !.DIM_PAUSE = 0],
          error_message |-> <<>>]

\* stop the device, finish the scan: [rte, error_message]
OffStopsDevice(s, env) ==
    IF "XLRStop" \in env.fails
    THEN [rte |-> [s.rte EXCEPT !.stopRecordingFailure = TRUE],
          error_message |-> s.error_message \o <<"Failed to stop streamstor">>]
    ELSE IF "finishScan" \in env.fails
    THEN [rte |-> [s.rte EXCEPT !.ss = "idle", !.stopRecordingFailure = TRUE],
          error_message |-> s.error_message \o <<"Failed to stop streamstor">>]
    ELSE [rte |-> [s.rte EXCEPT !.ss = "idle",
                                !.disk_state = IF s.rte.record_flag THEN "Recorded"
                                               ELSE s.rte.disk_state,
                                !.pp_current = s.rte.curscanptr],
          error_message |-> s.error_message]

\* OffReset that keeps the mode when something has failed
OffResetUnlessFailed(s) ==
    IF s.error_message = <<>>
    THEN In2diskReply([s.rte EXCEPT !.transfermode = no_transfer,
                                    !.transfersubmode = {}], 0, <<>>)
    ELSE In2diskReply(s.rte, 4, s.error_message)

\* reset global transfermode variables and reply
OffReset(s) ==
    In2diskReply([s.rte EXCEPT !.transfermode = no_transfer, !.transfersubmode = {}],
                 IF s.error_message = <<>> THEN 0 ELSE 4, s.error_message)

\* if( args[1]=="off" )
In2diskOff(rte, env) ==
    IF rte.transfermode = in2disk
    THEN IF run_flag \in rte.transfersubmode
         THEN OffReset(OffStopsDevice(OffStopsBoard(rte, env), env))
         ELSE OffReset([rte |-> rte, error_message |-> <<>>])
    ELSE In2diskReply(rte, 6, <<"not doing anything">>)

\* in2disk_fn(qry, args, rte): [rte, out, code, text]; env is what the
\* hardware answers to this call
in2disk_fn(qry, args, rte, env) ==
    IF rte.hardware \notin {"mk5a", "dim", "mk5c"} THEN In2diskThrows(rte)
    ELSE IF ~(qry \/ rte.transfermode = no_transfer \/ rte.transfermode = in2disk)
    THEN INPROGRESS(rte)
    ELSE IF qry THEN In2diskQuery(rte, env)
    ELSE IF Len(args) <= 1
    THEN In2diskReply(rte, 8, <<"command w/o actual commands and/or arguments">>)
    ELSE IF args[2] = "on" THEN In2diskOn(args, rte, env)
    ELSE IF args[2] = "off" THEN In2diskOff(rte, env)
    ELSE In2diskReply(rte, 2, <<args[2], "does not apply to", args[1]>>)

-----------------------------------------------------------------------------
(* SpecRecord: the record command and the other commands of the             *)
(* interpreter on one runtime                                               *)

Flags == {run_flag, "pause"}

\* the hardware answers as it should, or with one thing going wrong
Quiet == [fails |-> {}, NumDrives |-> 1, Full |-> FALSE, WriteProtected |-> FALSE,
          Recording |-> TRUE, Overflow |-> FALSE, throttle |-> FALSE, DIM_OF |-> FALSE]

\* what a command can meet
Envs ==
    {[Quiet EXCEPT !.fails = {c}] : c \in Calls \ {"XLRGetDeviceStatus"}}
    \cup {Quiet,
          [Quiet EXCEPT !.fails = {"ioboard", "XLRStop"}],
          [Quiet EXCEPT !.NumDrives = 0],
          [Quiet EXCEPT !.Full = TRUE],
          [Quiet EXCEPT !.WriteProtected = TRUE]}

\* what a query can meet
QueryEnvs ==
    {Quiet,
     [Quiet EXCEPT !.fails = {"XLRGetDeviceStatus"}],
     [Quiet EXCEPT !.fails = {"ioboard"}],
     [Quiet EXCEPT !.Overflow = TRUE],
     [Quiet EXCEPT !.throttle = TRUE],
     [Quiet EXCEPT !.DIM_OF = TRUE],
     [Quiet EXCEPT !.Recording = FALSE],
     [Quiet EXCEPT !.Recording = FALSE, !.Full = TRUE],
     [Quiet EXCEPT !.Recording = FALSE, !.fails = {"XLRGetDirectory"}]}

\* the calls that off makes to stop the I/O board and the StreamStor
StopCalls == {"ioboard", "XLRStop", "finishScan"}

RecordArgs ==
    {<<"record">>, <<"record", "on">>, <<"record", "off">>, <<"record", "pause">>,
     <<"record", "on", <<"scan">>>>, <<"record", "on", <<>>>>,
     <<"record", "on", <<"scan">>, <<"exp">>, <<>>, <<"src">>>>}

InitRecord ==
    /\ \E hardware \in {"mk5a", "dim", "mk5c", "dom"}, record_flag \in BOOLEAN :
          pend = [t \in Threads |->
                    IF t = 1
                    THEN [transfermode |-> no_transfer, transfersubmode |-> {},
                          hardware |-> hardware, notClock |-> 0,
                          DIM_STARTSTOP |-> 0, DIM_PAUSE |-> 0, ss |-> "idle",
                          curscanptr |-> <<>>, pp_current |-> <<>>,
                          statistics |-> "clear", stopRecordingFailure |-> FALSE,
                          record_flag |-> record_flag, disk_state |-> ""]
                    ELSE Idle]
    /\ openedFiles = <<>>
    /\ osOpen = [fd \in {0, 1, 2} |-> Tty]
    /\ ret = Event("none", 0, 0, 0, 0, NoErr)
    /\ live = EmptyBag
    /\ everClosed = {}
    /\ dead = {}
    /\ sinceRet = <<>>
    /\ lastOpen = {}
    /\ was = NoWas
    /\ stream = <<>>
    /\ rt = <<>>
    /\ phase = <<>>
    /\ origin = <<>>

\* in2disk_fn has returned r; fd is qry, a1 the word after the name of the
\* command, a2 the calls that raise while off stops the recording
RecordReturned(qry, args, env, r) ==
    /\ pend' = [pend EXCEPT ![1] = r.rte]
    /\ ret' = Event("in2disk", qry, IF Len(args) > 1 THEN args[2] ELSE "",
                    IF ~qry /\ Len(args) > 1 /\ args[2] = "off"
                    THEN env.fails \cap StopCalls ELSE {},
                    r.code, r.out)
    /\ UNCHANGED <<openedFiles, osOpen, tableGhosts, ioGhosts>>

\* the interpreter calls in2disk_fn for a command
record_in2disk ==
    \E args \in RecordArgs, env \in Envs :
        RecordReturned(FALSE, args, env, in2disk_fn(FALSE, args, pend[1], env))

\* the interpreter calls in2disk_fn for a query
record_in2disk_query ==
    \E args \in {<<"record">>, <<"record", "on">>}, env \in QueryEnvs :
        RecordReturned(TRUE, args, env, in2disk_fn(TRUE, args, pend[1], env))

\* another command starts a transfer of its own, or ends it
record_other_transfer ==
    /\ pend[1].transfermode # in2disk
    /\ pend' = [pend EXCEPT ![1].transfermode =
                                IF pend[1].transfermode = no_transfer THEN "disk2net"
                                ELSE no_transfer,
                            ![1].transfersubmode = {},
                            ![1].statistics = "counting"]
    /\ ret' = Event("other", 0, 0, 0, 0, NoErr)
    /\ UNCHANGED <<openedFiles, osOpen, tableGhosts, ioGhosts>>

\* another command, or a transfer at work, sets or clears a submode flag
record_other_flag ==
    \E f \in Flags :
        /\ pend' = [pend EXCEPT ![1].transfersubmode =
                                    IF f \in pend[1].transfersubmode
                                    THEN pend[1].transfersubmode \ {f}
                                    ELSE pend[1].transfersubmode \cup {f}]
        /\ ret' = Event("other", 0, 0, 0, 0, NoErr)
        /\ UNCHANGED <<openedFiles, osOpen, tableGhosts, ioGhosts>>

NextRecord ==
    \/ record_in2disk
    \/ record_in2disk_query
    \/ record_other_transfer
    \/ record_other_flag

SpecRecord == InitRecord /\ [][NextRecord]_vars

\* the step is a call of in2disk_fn for the command word, not a query
Commanded(word) == ret'.op = "in2disk" /\ ~ret'.fd /\ ret'.a1 = word

\* the call of this step has replied with code
Replied(code) == ret'.err = "reply" /\ ret'.rv = code

\* the step leaves the transfer mode and the submode as they are
ModeKept ==
    /\ pend'[1].transfermode = pend[1].transfermode
    /\ pend'[1].transfersubmode = pend[1].transfersubmode

\* the step is the transition of on: from no_transfer to in2disk with
\* exactly the run flag set, reply 0
TurnedOn ==
    /\ Commanded("on")
    /\ pend[1].transfermode = no_transfer
    /\ pend'[1].transfermode = in2disk
    /\ pend'[1].transfersubmode = {run_flag}
    /\ Replied(0)

\* stopping the I/O board or the StreamStor raises in the off of this step
StopRaises ==
    /\ run_flag \in pend[1].transfersubmode
    /\ \/ "ioboard" \in ret'.a2 /\ pend[1].hardware \in {"mk5a", "dim"}
       \/ "XLRStop" \in ret'.a2
       \/ "finishScan" \in ret'.a2

\* the step is the transition of off: from in2disk to no_transfer with all
\* submode flags cleared, reply 4 if stopping has raised and 0 otherwise
TurnedOff ==
    /\ Commanded("off")
    /\ pend[1].transfermode = in2disk
    /\ pend'[1].transfermode = no_transfer
    /\ pend'[1].transfersubmode = {}
    /\ Replied(IF StopRaises THEN 4 ELSE 0)

\* in2disk_fn is called on a recorder: a Mark5A, a Mark5B/DIM or a Mark5C
OnRecorder == pend[1].hardware \in {"mk5a", "dim", "mk5c"}

RecordOnWitness ==
    /\ ret.op = "in2disk" /\ ret.a1 = "on"
    /\ ret.err = "reply" /\ ret.rv = 0
    /\ pend[1].transfermode = in2disk
    /\ pend[1].transfersubmode = {run_flag}
    /\ pend[1].ss = "recording"
    /\ pend[1].curscanptr = <<"exp", "_", "scan", "_", "src">>

\* on has raised while the mode was no_transfer, with the clock of the
\* Mark5A board switched off already: the mode is still no_transfer
RecordRaisedWitness ==
    /\ ret.op = "in2disk" /\ ret.a1 = "on"
    /\ ret.err = "raised"
    /\ pend[1].transfermode = no_transfer
    /\ pend[1].notClock = 1

====
